---- MODULE Spec2Model ----
(***************************************************************************)
(* School-Nurse-Health-Log: the SQLite record store (app/models/db.py),    *)
(* its two schema migrators (init_db, migrations/run_migration.py), the    *)
(* web handlers (app/controllers/main.py) and the spreadsheet mirror       *)
(* (import_from_excel, app/utils/excel_utils.py).                          *)
(*                                                                         *)
(* Conventions of the model                                                *)
(*  - a column value is a sequence of length <= 1: <<>> is SQL NULL /      *)
(*    Python None, <<v>> is the value v;                                   *)
(*  - text is a TLA+ string; temperature is in tenths of a degree;         *)
(*  - datetime.now() is the tick counter `now`; one tick is one day, and   *)
(*    created_at / updated_at hold the tick at which they were written;    *)
(*  - a table is [exists, cols, notnull, unique, rows, seq]: rows in rowid *)
(*    order, seq the AUTOINCREMENT high-water mark (sqlite_sequence).      *)
(***************************************************************************)
EXTENDS Integers, Sequences, FiniteSets, TLC

VARIABLES db, now, proc, snap, last, sheet, report, served, result, book

vars == <<db, now, proc, snap, last, sheet, report, served, result, book>>

(***************************************************************************)
(* Bounds of the model                                                     *)
(***************************************************************************)
\* Ticks of the clock, and requests served (handler calls and migrator runs).
MaxTime == 2
MaxRequests == 3

\* Data rows of an uploaded batch.
MaxRows == 3

\* Page numbers and page sizes a query asks for.
MaxPage == 2
MaxPerPage == 2

(***************************************************************************)
(* Values                                                                  *)
(***************************************************************************)
NULL == <<>>
V(x) == <<x>>
IsNull(v) == v = NULL
Val(v) == v[1]

Max(a, b) == IF a >= b THEN a ELSE b

SeqToSet(s) == {s[i] : i \in 1..Len(s)}

(***************************************************************************)
(* Python string helpers                                                   *)
(***************************************************************************)
Digits == <<"0", "1", "2", "3", "4", "5", "6", "7", "8", "9">>

IsDigit(c) == \E i \in 1..10 : Digits[i] = c

DigitVal(c) == (CHOOSE i \in 1..10 : Digits[i] = c) - 1

\* Contains(s, t): Python `t in s` on strings.
Contains(s, t) ==
    \E i \in 1..(Len(s) - Len(t) + 1) : SubSeq(s, i, i + Len(t) - 1) = t

\* str(n) for a natural number n.
RECURSIVE NatToStr(_)
NatToStr(n) == IF n < 10 THEN Digits[n + 1]
               ELSE NatToStr(n \div 10) \o Digits[(n % 10) + 1]

AllDigits(s) == s # "" /\ \A i \in 1..Len(s) : IsDigit(SubSeq(s, i, i))

\* int(s) for a string of decimal digits.
RECURSIVE DigitsToNat(_)
DigitsToNat(s) ==
    IF s = "" THEN 0
    ELSE 10 * DigitsToNat(SubSeq(s, 1, Len(s) - 1)) + DigitVal(SubSeq(s, Len(s), Len(s)))

\* s.zfill(2)
ZFill2(s) == IF Len(s) = 0 THEN "00" ELSE IF Len(s) = 1 THEN "0" \o s ELSE s

\* s.strip(): leading and trailing blanks removed.
RECURSIVE LStrip(_)
LStrip(s) == IF s # "" /\ Head(s) = " " THEN LStrip(Tail(s)) ELSE s
RECURSIVE RStrip(_)
RStrip(s) == IF s # "" /\ SubSeq(s, Len(s), Len(s)) = " "
             THEN RStrip(SubSeq(s, 1, Len(s) - 1)) ELSE s
Strip(s) == RStrip(LStrip(s))

UpperCase == "ABCDEFGHIJKLMNOPQRSTUVWXYZ"
LowerCase == "abcdefghijklmnopqrstuvwxyz"

LowerChar(c) ==
    IF \E i \in 1..Len(UpperCase) : SubSeq(UpperCase, i, i) = c
    THEN LET i == CHOOSE j \in 1..Len(UpperCase) : SubSeq(UpperCase, j, j) = c
         IN  SubSeq(LowerCase, i, i)
    ELSE c

\* s.lower()
RECURSIVE Lower(_)
Lower(s) == IF s = "" THEN "" ELSE LowerChar(Head(s)) \o Lower(Tail(s))

\* s.replace(' ', '_')
RECURSIVE Underscored(_)
Underscored(s) == IF s = "" THEN ""
                  ELSE (IF Head(s) = " " THEN "_" ELSE Head(s)) \o Underscored(Tail(s))

\* Is c a separator: the character ":" itself, or any character of [^0-9]?
Separates(sep, c) == IF sep = ":" THEN c = ":" ELSE ~IsDigit(c)

\* The pieces of s between separators, empty pieces included: s.split(':') and
\* re.split(r"[^0-9]", s).
RECURSIVE SplitOn(_, _, _)
SplitOn(s, sep, piece) ==
    IF s = "" THEN <<piece>>
    ELSE IF Separates(sep, Head(s)) THEN <<piece>> \o SplitOn(Tail(s), sep, "")
    ELSE SplitOn(Tail(s), sep, piece \o Head(s))

\* str(x) of a float with one decimal, given in tenths: 370 -> "37.0".
FmtTenths(n) ==
    LET a == IF n < 0 THEN 0 - n ELSE n
    IN  (IF n < 0 THEN "-" ELSE "") \o NatToStr(a \div 10) \o "." \o Digits[(a % 10) + 1]

\* float(s) in tenths for the strings float() accepts here: "37", "37.0".
IsDecimal(s) ==
    \/ AllDigits(s)
    \/ /\ Len(s) >= 3
       /\ SubSeq(s, Len(s) - 1, Len(s) - 1) = "."
       /\ AllDigits(SubSeq(s, 1, Len(s) - 2))
       /\ IsDigit(SubSeq(s, Len(s), Len(s)))

ParseTenths(s) ==
    IF AllDigits(s) THEN 10 * DigitsToNat(s)
    ELSE 10 * DigitsToNat(SubSeq(s, 1, Len(s) - 2)) + DigitVal(SubSeq(s, Len(s), Len(s)))

\* date.strftime('%Y-%m-%d') of day d of the modelled month.
FmtDate(d) == "2024-01-" \o ZFill2(NatToStr(d))

(***************************************************************************)
(* Schemas                                                                 *)
(***************************************************************************)
\* The columns of CREATE TABLE records that the model keeps.
CanonCols == {"id", "patient_id", "full_name", "grade_level", "date_of_visit",
              "time_of_visit", "nurse_name", "visit_reason_category",
              "visit_details", "temperature", "heart_rate",
              "blood_pressure_systolic", "blood_pressure_diastolic",
              "created_at", "updated_at"}

CanonNotNull == {"full_name", "date_of_visit", "time_of_visit", "nurse_name"}

CanonUnique == {"patient_id"}

\* The superseded shape: the names the migrators and the importer still read.
LegacyBaseCols == {"id", "patient_id", "full_name", "grade_level", "date_of_visit",
                   "time_of_visit", "nurse_name", "visit_reason", "visit_details",
                   "temperature", "pulse", "blood_pressure", "created_at"}

NoTable == [exists |-> FALSE, cols |-> {}, notnull |-> {}, unique |-> {},
            rows |-> <<>>, seq |-> 0]

NewTable(cols, notnull, unique) ==
    [exists |-> TRUE, cols |-> cols, notnull |-> notnull, unique |-> unique,
     rows |-> <<>>, seq |-> 0]

TableNames == {"records", "old_records", "records_backup", "new_records"}

IsLegacy(t) == t.exists /\ "pulse" \in t.cols /\ "heart_rate" \notin t.cols

MaxId(t) == IF t.rows = <<>> THEN 0 ELSE Val(t.rows[Len(t.rows)]["id"])

(***************************************************************************)
(* SQL statements on one table                                             *)
(***************************************************************************)
\* A table whose UNIQUE constraints are not enforced.
ViolatesNoUnique(t, r) ==
    \/ \E c \in t.notnull : IsNull(r[c])
    \/ \E i \in 1..Len(t.rows) : t.rows[i]["id"] = r["id"]

\* Would adding row r break a NOT NULL, UNIQUE or PRIMARY KEY constraint of t?
Violates(t, r) ==
    \/ \E c \in t.notnull : IsNull(r[c])
    \/ \E c \in t.unique : ~IsNull(r[c]) /\ \E i \in 1..Len(t.rows) : t.rows[i][c] = r[c]
    \/ \E i \in 1..Len(t.rows) : t.rows[i]["id"] = r["id"]

\* Rows kept in rowid order.
RECURSIVE InsertSorted(_, _)
InsertSorted(rows, r) ==
    IF rows = <<>> THEN <<r>>
    ELSE IF Val(r["id"]) < Val(Head(rows)["id"]) THEN <<r>> \o rows
    ELSE <<Head(rows)>> \o InsertSorted(Tail(rows), r)

\* The full row for partial values `vals`: absent columns NULL, and an absent or
\* NULL id drawn from the AUTOINCREMENT sequence.
FullRow(t, vals) ==
    LET given(c) == IF c \in DOMAIN vals THEN vals[c] ELSE NULL
        rid == IF IsNull(given("id")) THEN V(Max(t.seq, MaxId(t)) + 1) ELSE given("id")
    IN  [c \in t.cols |-> IF c = "id" THEN rid ELSE given(c)]

\* INSERT INTO t (...) VALUES (...): the table after, or "error".
PutRow(t, r) ==
    [t EXCEPT !.rows = InsertSorted(t.rows, r), !.seq = Max(t.seq, Val(r["id"]))]

InsertRow(t, vals) ==
    LET r == FullRow(t, vals)
    IN  IF (DOMAIN vals) \subseteq t.cols /\ ~Violates(t, r)
        THEN [ok |-> TRUE, t |-> PutRow(t, r)]
        ELSE [ok |-> FALSE, t |-> t]

\* INSERT INTO t SELECT ...: all rows or none (statement atomicity).
RECURSIVE InsertAll(_, _)
InsertAll(t, valsSeq) ==
    IF valsSeq = <<>> THEN [ok |-> TRUE, t |-> t]
    ELSE LET one == InsertRow(t, Head(valsSeq))
         IN  IF one.ok THEN InsertAll(one.t, Tail(valsSeq))
             ELSE [ok |-> FALSE, t |-> t]

\* DELETE FROM t WHERE c = v
DeleteWhere(t, c, v) ==
    LET keep(r) == r[c] # v
    IN  [t EXCEPT !.rows = SelectSeq(t.rows, keep)]

RECURSIVE SortRows(_)
SortRows(rows) == IF rows = <<>> THEN <<>>
                  ELSE InsertSorted(SortRows(Tail(rows)), Head(rows))

\* UPDATE t SET <vals> WHERE c = v: every matching row rewritten and the number
\* of rows matched; an unknown column or a broken constraint is an error and
\* leaves the table as it was.
UpdateWhere(t, c, v, vals) ==
    LET n == Len(t.rows)
        hit(i) == t.rows[i][c] = v
        upd(r) == [k \in t.cols |-> IF k \in DOMAIN vals THEN vals[k] ELSE r[k]]
        newRows == [i \in 1..n |-> IF hit(i) THEN upd(t.rows[i]) ELSE t.rows[i]]
        bad == \/ ~((DOMAIN vals) \subseteq t.cols)
               \/ \E i \in 1..n : hit(i) /\ \E k \in t.notnull \cup {"id"} : IsNull(newRows[i][k])
               \/ \E i, j \in 1..n :
                     /\ i # j /\ hit(i)
                     /\ \/ newRows[i]["id"] = newRows[j]["id"]
                        \/ \E k \in t.unique :
                              ~IsNull(newRows[i][k]) /\ newRows[i][k] = newRows[j][k]
    IN  IF bad THEN [ok |-> FALSE, t |-> t, count |-> 0]
        ELSE [ok |-> TRUE, t |-> [t EXCEPT !.rows = SortRows(newRows)],
              count |-> Cardinality({i \in 1..n : hit(i)})]

(***************************************************************************)
(* The clock                                                               *)
(***************************************************************************)
Tick ==
    /\ now < MaxTime
    /\ now' = now + 1
    /\ UNCHANGED <<db, proc, snap, last, sheet, report, served, result, book>>

\* snap, sheet and report describe the request in progress or the last one
\* completed: the store as a migration run found it, the sheet an import was
\* given and what it reported. A request of another kind clears them.
NoSnap == [n \in TableNames |-> NoTable]

NoSheet == [headers |-> <<>>, rows |-> <<>>]

NoReport == [res |-> "none", success_count |-> 0, error_count |-> 0, errors |-> <<>>]

NoMigration == snap' = NoSnap

NoUpload == sheet' = NoSheet /\ report' = NoReport

\* What the last query returned; any other request clears it.
NoResult == [items |-> <<>>, total |-> 0, page |-> 0, per_page |-> 0, pages |-> 0]

\* The workbook of the command-line tool: no file yet.
NoBook == [exists |-> FALSE, rows |-> <<>>]

Idle == [pc |-> "idle", caller |-> "none", table_exists |-> FALSE, current_time |-> 0]

\* What the last handler did: "ok", "error" (it raised), "invalid" (form rejected),
\* "not_found", "none" (it returned None), and the key (patient_id or id) it
\* was about.
Outcome(op, res, key) == [op |-> op, res |-> res, key |-> key]

(***************************************************************************)
(* init_db (app/models/db.py), one action per commit point                 *)
(***************************************************************************)
\* CREATE TABLE IF NOT EXISTS records_backup AS SELECT * FROM records
BackupOf(d) ==
    IF d.records_backup.exists THEN d.records_backup
    ELSE [exists |-> TRUE, cols |-> d.records.cols, notnull |-> {}, unique |-> {},
          rows |-> d.records.rows, seq |-> 0]

\* Lines 36-48: the legacy store is backed up and renamed, and that is committed.
RenameLegacy(d) ==
    [d EXCEPT !.records_backup = BackupOf(d),
              !.old_records = d.records,
              !.records = NoTable]

\* Where an init_db run goes when it ends: back to its caller.
AfterInit(p) == IF p.caller = "run_migration"
                THEN [p EXCEPT !.pc = "mig_create"]
                ELSE Idle

\* Lines 20-51.
InitDbDetect(caller) ==
    LET p == [pc |-> "create", caller |-> caller,
              table_exists |-> db.records.exists, current_time |-> now]
    IN  IF ~db.records.exists
        THEN /\ proc' = p
             /\ UNCHANGED <<db, last>>
        ELSE IF IsLegacy(db.records)
        THEN IF db.old_records.exists
             THEN \* ALTER TABLE ... RENAME raises: the backup is already committed
                  /\ db' = [db EXCEPT !.records_backup = BackupOf(db)]
                  /\ proc' = Idle
                  /\ last' = Outcome(caller, "error", NULL)
             ELSE /\ db' = RenameLegacy(db)
                  /\ proc' = p
                  /\ UNCHANGED last
        ELSE \* the new schema is there already: return
             /\ proc' = AfterInit(p)
             /\ last' = IF caller = "init_db" THEN Outcome("init_db", "ok", NULL) ELSE last
             /\ UNCHANGED db

InitDb ==
    /\ proc.pc = "idle"
    /\ served < MaxRequests
    /\ served' = served + 1
    /\ result' = NoResult
    /\ UNCHANGED book
    /\ snap' = db
    /\ InitDbDetect("init_db")
    /\ NoUpload
    /\ UNCHANGED now

\* Lines 52-136: CREATE TABLE IF NOT EXISTS records, outside any transaction.
InitDbCreate ==
    /\ proc.pc = "create"
    /\ db' = IF db.records.exists THEN db
             ELSE [db EXCEPT !.records = NewTable(CanonCols, CanonNotNull, CanonUnique)]
    /\ proc' = [proc EXCEPT !.pc = "copy"]
    /\ UNCHANGED <<now, snap, last, sheet, report, served, result, book>>

\* Lines 146-159: the values INSERT ... SELECT gives one old row. A column named
\* twice in the column list takes its first expression, so an old updated_at
\* column wins over the timestamp parameter.
CopiedRow(old, common, current_time) ==
    [c \in common \cup {"created_at", "updated_at"} |->
        IF c \in common THEN old[c]
        ELSE IF c = "created_at" THEN old["created_at"]
        ELSE V(current_time)]

\* Lines 138-162: copy the common columns, then drop old_records.
CopyOld(d, current_time) ==
    LET common == (d.records.cols \cap d.old_records.cols) \ {"id"}
        olds == d.old_records.rows
        vals == [i \in 1..Len(olds) |-> CopiedRow(olds[i], common, current_time)]
        ins == IF "created_at" \in d.old_records.cols
               THEN InsertAll(d.records, vals)
               ELSE [ok |-> FALSE, t |-> d.records]
    IN  IF ins.ok
        THEN [ok |-> TRUE, d |-> [d EXCEPT !.records = ins.t, !.old_records = NoTable]]
        ELSE [ok |-> FALSE, d |-> d]

\* Lines 137-181, one transaction.
InitDbCopy ==
    /\ proc.pc = "copy"
    /\ IF proc.table_exists /\ db.old_records.exists
       THEN LET res == CopyOld(db, proc.current_time)
            IN  /\ db' = res.d
                /\ proc' = IF res.ok THEN AfterInit(proc) ELSE Idle
                /\ last' = IF res.ok /\ proc.caller = "run_migration" THEN last
                           ELSE Outcome(proc.caller, IF res.ok THEN "ok" ELSE "error", NULL)
       ELSE /\ db' = db
            /\ proc' = AfterInit(proc)
            /\ last' = IF proc.caller = "run_migration" THEN last
                       ELSE Outcome(proc.caller, "ok", NULL)
    /\ UNCHANGED <<now, snap, sheet, report, served, result, book>>

\* A statement raises (disk full, database locked) or the process is killed:
\* what is committed stays, the open transaction is rolled back.
InitDbFail ==
    /\ proc.pc \in {"create", "copy"}
    /\ proc' = Idle
    /\ last' = Outcome(proc.caller, "error", NULL)
    /\ UNCHANGED <<db, now, snap, sheet, report, served, result, book>>

(***************************************************************************)
(* run_migration (migrations/run_migration.py)                             *)
(***************************************************************************)
\* '((temperature - 32.0) * 5.0/9.0)' on tenths of a degree, to the nearest tenth.
FahrenheitToCelsius(t) == (((t - 320) * 5 * 2) + 9) \div 18

\* Lines 111-182: the SELECT expression of each target column, evaluated on one
\* row of the old table.
MappedRow(old, old_cols, stamp) ==
    LET src(c) == IF c \in old_cols THEN old[c] ELSE NULL
    IN  [c \in CanonCols |->
          CASE c = "visit_reason_category" ->
                 IF "visit_reason_category" \in old_cols THEN old["visit_reason_category"]
                 ELSE src("visit_reason")
            [] c = "visit_details" -> NULL
            [] c = "temperature" ->
                 IF "temperature" \in old_cols /\ ~IsNull(old["temperature"])
                 THEN V(FahrenheitToCelsius(Val(old["temperature"])))
                 ELSE NULL
            [] c = "heart_rate" ->
                 IF "pulse" \in old_cols THEN old["pulse"] ELSE src("heart_rate")
            [] c = "blood_pressure_systolic" -> NULL
            [] c = "blood_pressure_diastolic" -> NULL
            [] c = "updated_at" -> V(stamp)
            [] OTHER -> src(c)]

\* Lines 184-195: fill new_records from records, drop records, rename.
Rebuild(d, stamp) ==
    LET olds == d.records.rows
        vals == [i \in 1..Len(olds) |-> MappedRow(olds[i], d.records.cols, stamp)]
        ins == InsertAll(d.new_records, vals)
    IN  IF ins.ok
        THEN [ok |-> TRUE, d |-> [d EXCEPT !.records = ins.t, !.new_records = NoTable]]
        ELSE [ok |-> FALSE, d |-> d]

\* Line 17: create_app() runs init_db before anything else.
RunMigration ==
    /\ proc.pc = "idle"
    /\ served < MaxRequests
    /\ served' = served + 1
    /\ result' = NoResult
    /\ UNCHANGED book
    /\ snap' = db
    /\ InitDbDetect("run_migration")
    /\ NoUpload
    /\ UNCHANGED now

\* Lines 23-87: CREATE TABLE IF NOT EXISTS new_records, outside any transaction.
MigCreate ==
    /\ proc.pc = "mig_create"
    /\ db' = IF db.new_records.exists THEN db
             ELSE [db EXCEPT !.new_records = NewTable(CanonCols, CanonNotNull, CanonUnique)]
    /\ proc' = [proc EXCEPT !.pc = "mig_rebuild"]
    /\ UNCHANGED <<now, snap, last, sheet, report, served, result, book>>

\* Lines 89-209, one transaction: committed whole, or rolled back on an exception.
MigRebuild ==
    /\ proc.pc = "mig_rebuild"
    /\ IF ~db.records.exists
       THEN /\ db' = [db EXCEPT !.records = db.new_records, !.new_records = NoTable]
            /\ last' = Outcome("run_migration", "ok", NULL)
       ELSE LET res == Rebuild(db, now)
            IN  /\ db' = res.d
                /\ last' = Outcome("run_migration", IF res.ok THEN "ok" ELSE "error", NULL)
    /\ proc' = Idle
    /\ UNCHANGED <<now, snap, sheet, report, served, result, book>>

\* A statement of the transaction raises, or the process is killed: rollback.
MigFail ==
    /\ proc.pc \in {"mig_create", "mig_rebuild"}
    /\ proc' = Idle
    /\ last' = Outcome("run_migration", "error", NULL)
    /\ UNCHANGED <<db, now, snap, sheet, report, served, result, book>>

(***************************************************************************)
(* The record store API (app/models/db.py)                                 *)
(***************************************************************************)
\* The random suffixes generate_patient_id can draw (two of the 36^4).
Suffixes == {"A1B2", "ZZ99"}

\* generate_patient_id: strftime('%Y%m%d') of today, "-", four random characters.
generate_patient_id(today, suffix) == "202401" \o ZFill2(NatToStr(today)) \o "-" \o suffix

\* The application serves requests once init_db has returned.
Serving ==
    /\ proc.pc = "idle" /\ db.records.exists /\ ~IsLegacy(db.records)
    /\ served < MaxRequests
    /\ served' = served + 1
    /\ result' = NoResult
    /\ UNCHANGED book

\* `not record_data['patient_id']`
Falsy(v) == IsNull(v) \/ v = V("")

\* create_record writing with INSERT OR REPLACE, as the importer does.
CreateRecordResultReplace(t, record_data, suffix, stamp) ==
    LET pid == IF "patient_id" \notin DOMAIN record_data \/ Falsy(record_data["patient_id"])
               THEN V(generate_patient_id(stamp, suffix))
               ELSE record_data["patient_id"]
        keys == (DOMAIN record_data) \cup {"patient_id", "created_at", "updated_at"}
        data == [k \in keys |->
                   IF k = "patient_id" THEN pid
                   ELSE IF k \in {"created_at", "updated_at"} THEN V(stamp)
                   ELSE record_data[k]]
    IN  [ins |-> InsertRow(DeleteWhere(t, "patient_id", pid), data), pid |-> pid]

\* Lines 189-219.
CreateRecordResult(t, record_data, suffix, stamp) ==
    LET pid == IF "patient_id" \notin DOMAIN record_data \/ Falsy(record_data["patient_id"])
               THEN V(generate_patient_id(stamp, suffix))
               ELSE record_data["patient_id"]
        keys == (DOMAIN record_data) \cup {"patient_id", "created_at", "updated_at"}
        data == [k \in keys |->
                   IF k = "patient_id" THEN pid
                   ELSE IF k \in {"created_at", "updated_at"} THEN V(stamp)
                   ELSE record_data[k]]
    IN  [ins |-> InsertRow(t, data), pid |-> pid]

\* Lines 221-230: the row with this id, or None.
get_record_by_id(t, record_id) ==
    IF \E i \in 1..Len(t.rows) : t.rows[i]["id"] = V(record_id)
    THEN V(CHOOSE r \in SeqToSet(t.rows) : r["id"] = V(record_id))
    ELSE NULL

\* Lines 243-270: an empty update_data returns the record as it is.
UpdateRecordResult(t, record_id, update_data, stamp) ==
    IF DOMAIN update_data = {}
    THEN [ok |-> TRUE, t |-> t, count |-> 0]
    ELSE LET keys == (DOMAIN update_data) \cup {"updated_at"}
             data == [k \in keys |-> IF k = "updated_at" THEN V(stamp) ELSE update_data[k]]
         IN  UpdateWhere(t, "id", V(record_id), data)

\* A delete whose WHERE clause reads id <= ?.
DeleteRecordResultUpTo(t, record_id) ==
    LET keep(r) == Val(r["id"]) > record_id
        after == [t EXCEPT !.rows = SelectSeq(t.rows, keep)]
    IN  [t |-> after, found |-> Len(after.rows) < Len(t.rows)]

\* Lines 272-285: the table after, and `cursor.rowcount > 0`.
DeleteRecordResult(t, record_id) ==
    LET after == DeleteWhere(t, "id", V(record_id))
    IN  [t |-> after, found |-> Len(after.rows) < Len(t.rows)]

\* f overridden by g.
Merge(f, g) == [k \in (DOMAIN f) \cup (DOMAIN g) |-> IF k \in DOMAIN g THEN g[k] ELSE f[k]]

Without(f, ks) == [k \in (DOMAIN f) \ ks |-> f[k]]

\* The record_data dictionaries callers pass to create_record.
BaseData == [full_name |-> V("Ann"), date_of_visit |-> V(FmtDate(1)),
             time_of_visit |-> V("09:30"), nurse_name |-> V("Joy"),
             visit_reason_category |-> V("Illness")]

CreateInputs ==
    { BaseData,
      Merge(BaseData, [patient_id |-> V("P1")]),
      Merge(BaseData, [patient_id |-> V(""), full_name |-> V("")]),
      Merge(BaseData, [patient_id |-> V(generate_patient_id(1, "A1B2")),
                       temperature |-> V(986), heart_rate |-> V(300)]),
      Without(BaseData, {"nurse_name"}) }

\* The update_data dictionaries callers pass to update_record.
UpdateInputs ==
    { <<>>,
      [full_name |-> V("Bob")],
      [patient_id |-> V("P1")],
      [patient_id |-> NULL, created_at |-> V(0)],
      [nurse_name |-> NULL] }

RecordIds == 1..(MaxRequests + 1)

\* A call of create_record with one of the dictionaries `inputs`.
Create(inputs) ==
    /\ Serving
    /\ \E record_data \in inputs, suffix \in Suffixes :
         LET res == CreateRecordResult(db.records, record_data, suffix, now)
         IN  /\ db' = [db EXCEPT !.records = res.ins.t]
             /\ last' = Outcome("create_record", IF res.ins.ok THEN "ok" ELSE "error", res.pid)
    /\ NoMigration /\ NoUpload
    /\ UNCHANGED <<now, proc>>

CreateRecord == Create(CreateInputs)

UpdateRecord ==
    /\ Serving
    /\ \E record_id \in RecordIds, update_data \in UpdateInputs :
         LET res == UpdateRecordResult(db.records, record_id, update_data, now)
         IN  /\ db' = [db EXCEPT !.records = res.t]
             /\ last' = Outcome("update_record",
                                IF ~res.ok THEN "error"
                                ELSE IF IsNull(get_record_by_id(res.t, record_id)) THEN "none"
                                ELSE "ok",
                                V(record_id))
    /\ NoMigration /\ NoUpload
    /\ UNCHANGED <<now, proc>>

DeleteRecord ==
    /\ Serving
    /\ \E record_id \in RecordIds :
         LET res == DeleteRecordResult(db.records, record_id)
         IN  /\ db' = [db EXCEPT !.records = res.t]
             /\ last' = Outcome("delete_record", IF res.found THEN "ok" ELSE "not_found",
                                V(record_id))
    /\ NoMigration /\ NoUpload
    /\ UNCHANGED <<now, proc>>

(***************************************************************************)
(* The web handlers (app/controllers/main.py) and RecordForm (forms.py)    *)
(***************************************************************************)
ReasonChoices == {"Illness", "Injury", "Medication", "Routine Check", "Follow-up", "Other"}

InRange(v, lo, hi) == IsNull(v) \/ (Val(v) >= lo /\ Val(v) <= hi)

\* DataRequired on a text field: something other than blanks.
DataRequired(text) == Strip(text) # ""

\* form.validate_on_submit(): the validators of the fields the handlers store.
\* The time of visit is taken not to lie ahead of the clock within its day.
ValidForm(f, today) ==
    /\ DataRequired(f.full_name)
    /\ ~IsNull(f.date_of_visit) /\ Val(f.date_of_visit) <= today
    /\ ~IsNull(f.time_of_visit)
    /\ DataRequired(f.nurse_name)
    /\ f.visit_reason_category \in ReasonChoices
    /\ f.visit_reason \in ReasonChoices \cup {""}
    /\ InRange(f.temperature, 300, 450)
    /\ InRange(f.heart_rate, 30, 250)
    /\ InRange(f.blood_pressure_systolic, 70, 200)
    /\ InRange(f.blood_pressure_diastolic, 40, 120)

\* Python `a or b` on two strings.
StrOr(a, b) == IF a # "" THEN a ELSE b

\* The column values both handlers bind (lines 109-134, 208-217). A DecimalField
\* yields decimal.Decimal, which sqlite3 cannot bind.
FormValues(f) ==
    [full_name |-> V(f.full_name),
     grade_level |-> V(f.grade_level),
     date_of_visit |-> V(FmtDate(Val(f.date_of_visit))),
     time_of_visit |-> f.time_of_visit,
     nurse_name |-> V(f.nurse_name),
     visit_reason_category |-> V(StrOr(f.visit_reason, f.visit_reason_category)),
     visit_details |-> V(f.visit_details),
     temperature |-> f.temperature,
     heart_rate |-> f.heart_rate,
     blood_pressure_systolic |-> f.blood_pressure_systolic,
     blood_pressure_diastolic |-> f.blood_pressure_diastolic]

Bindable(f) == IsNull(f.temperature)

\* Lines 86-142.
AddRecordResult(t, f, suffix, stamp) ==
    LET pid == V(generate_patient_id(stamp, suffix))
    IN  IF ~ValidForm(f, stamp) THEN [res |-> "invalid", t |-> t, pid |-> NULL]
        ELSE IF ~Bindable(f) THEN [res |-> "error", t |-> t, pid |-> pid]
        ELSE LET ins == InsertRow(t, Merge(FormValues(f),
                                           [patient_id |-> pid, created_at |-> V(stamp)]))
             IN  [res |-> IF ins.ok THEN "ok" ELSE "error", t |-> ins.t, pid |-> pid]

HasPatient(t, pid) == \E i \in 1..Len(t.rows) : t.rows[i]["patient_id"] = pid

\* Lines 144-225, the POST.
EditRecordResult(t, patient_id, f, stamp) ==
    IF ~HasPatient(t, V(patient_id)) THEN [res |-> "not_found", t |-> t]
    ELSE IF ~ValidForm(f, stamp) THEN [res |-> "invalid", t |-> t]
    ELSE IF ~Bindable(f) THEN [res |-> "error", t |-> t]
    ELSE LET upd == UpdateWhere(t, "patient_id", V(patient_id), FormValues(f))
         IN  [res |-> IF upd.ok THEN "ok" ELSE "error", t |-> upd.t]

\* Lines 227-241.
WebDeleteResult(t, patient_id) ==
    IF HasPatient(t, V(patient_id))
    THEN [res |-> "ok", t |-> DeleteWhere(t, "patient_id", V(patient_id))]
    ELSE [res |-> "not_found", t |-> t]

\* The forms submitted.
BaseForm == [full_name |-> "Ann", grade_level |-> "", date_of_visit |-> V(1),
             time_of_visit |-> V("09:30"), nurse_name |-> "Joy",
             visit_reason_category |-> "Illness", visit_reason |-> "",
             visit_details |-> "", temperature |-> NULL, heart_rate |-> NULL,
             blood_pressure_systolic |-> NULL, blood_pressure_diastolic |-> NULL]

FormInputs ==
    { BaseForm,
      [BaseForm EXCEPT !.visit_reason = "Injury", !.date_of_visit = V(2)],
      [BaseForm EXCEPT !.full_name = "Bob", !.grade_level = "5", !.heart_rate = V(72),
                       !.visit_details = "fever",
                       !.blood_pressure_systolic = V(120),
                       !.blood_pressure_diastolic = V(80)],
      [BaseForm EXCEPT !.temperature = V(370)],
      [BaseForm EXCEPT !.full_name = " "],
      [BaseForm EXCEPT !.heart_rate = V(300)],
      [BaseForm EXCEPT !.visit_reason_category = ""] }

\* The patient ids a request URL can name: stored ones and one that is not.
UrlIds == {"P1", "P9"} \cup {generate_patient_id(d, x) : d \in 1..MaxTime, x \in Suffixes}

\* POST /add of one of the forms `forms`.
Add(forms) ==
    /\ Serving
    /\ \E f \in forms, suffix \in Suffixes :
         LET res == AddRecordResult(db.records, f, suffix, now)
         IN  /\ db' = [db EXCEPT !.records = res.t]
             /\ last' = Outcome("add_record", res.res, res.pid)
    /\ NoMigration /\ NoUpload
    /\ UNCHANGED <<now, proc>>

AddRecord == Add(FormInputs)

EditRecord ==
    /\ Serving
    /\ \E patient_id \in UrlIds, f \in FormInputs :
         LET res == EditRecordResult(db.records, patient_id, f, now)
         IN  /\ db' = [db EXCEPT !.records = res.t]
             /\ last' = Outcome("edit_record", res.res, V(patient_id))
    /\ NoMigration /\ NoUpload
    /\ UNCHANGED <<now, proc>>

WebDelete ==
    /\ Serving
    /\ \E patient_id \in UrlIds :
         LET res == WebDeleteResult(db.records, patient_id)
         IN  /\ db' = [db EXCEPT !.records = res.t]
             /\ last' = Outcome("web_delete", res.res, V(patient_id))
    /\ NoMigration /\ NoUpload
    /\ UNCHANGED <<now, proc>>

(***************************************************************************)
(* Spreadsheet import (import_from_excel, app/controllers/main.py)         *)
(***************************************************************************)
\* A cell as pandas hands it over: blank (NaN), text, or a number.
NaN == [k |-> "nan", s |-> "", n |-> 0]
Str(s) == [k |-> "str", s |-> s, n |-> 0]
Num(n) == [k |-> "num", s |-> "", n |-> n]

\* pd.notna(x)
NotNa(cell) == cell.k # "nan"

\* str(x)
PyStr(cell) == IF cell.k = "nan" THEN "nan"
               ELSE IF cell.k = "str" THEN cell.s ELSE NatToStr(cell.n)

\* Lines 318-339: the keys of db_columns, in insertion order.
DbColumns == <<"patient_id", "full_name", "date_of_birth", "age", "gender",
               "grade_level", "date_of_visit", "time_of_visit", "nurse_name",
               "visit_reason", "visit_reason_category", "visit_details",
               "temperature", "pulse", "heart_rate", "blood_pressure", "notes">>

required_cols == {"full_name", "date_of_visit", "time_of_visit", "nurse_name"}

\* Line 345.
NormalizeHeader(col) == Underscored(Lower(Strip(col)))

\* Lines 348-351: the first db column whose name contains, or is contained in,
\* the normalized header; 0 when there is none.
FirstMatch(col_name) ==
    LET hits == {i \in 1..Len(DbColumns) :
                   Contains(col_name, DbColumns[i]) \/ Contains(DbColumns[i], col_name)}
    IN  IF hits = {} THEN 0 ELSE CHOOSE i \in hits : \A j \in hits : i <= j

\* Lines 341-351: db column -> position of the sheet column mapped to it (the
\* last header that matched wins), 0 for None.
MapColumns(headers) ==
    [c \in SeqToSet(DbColumns) |->
        LET mine == {h \in 1..Len(headers) :
                       LET m == FirstMatch(NormalizeHeader(headers[h]))
                       IN  m # 0 /\ DbColumns[m] = c}
        IN  IF mine = {} THEN 0 ELSE CHOOSE h \in mine : \A g \in mine : g <= h]

\* pd.to_datetime(x).strftime('%Y-%m-%d') for the dates of the modelled month;
\* a blank cell (NaT) and text that is no date raise.
IsIsoDate(text) ==
    /\ Len(text) = 10
    /\ SubSeq(text, 1, 8) = "2024-01-"
    /\ AllDigits(SubSeq(text, 9, 10))

DateParses(cell) == cell.k = "num" \/ (cell.k = "str" /\ IsIsoDate(Strip(cell.s)))

ParsedDate(cell) == IF cell.k = "num" THEN "1970-01-01" ELSE Strip(cell.s)

\* Lines 393-411.
ParsedTime(cell) ==
    IF cell.k = "str"
    THEN LET time_parts == SplitOn(Strip(cell.s), ":", "")
         IN  IF Len(time_parts) >= 2
             THEN ZFill2(time_parts[1]) \o ":" \o ZFill2(time_parts[2])
             ELSE "00:00"
    ELSE "00:00"

\* int(x), or "raises".
IntParses(cell) == cell.k = "num" \/ (cell.k = "str" /\ AllDigits(Strip(cell.s)))
ParsedInt(cell) == IF cell.k = "num" THEN cell.n ELSE DigitsToNat(Strip(cell.s))

\* float(x) in tenths, or "raises"; a numeric cell already holds tenths.
FloatParses(cell) == cell.k = "num" \/ (cell.k = "str" /\ IsDecimal(Strip(cell.s)))
ParsedFloat(cell) == IF cell.k = "num" THEN cell.n ELSE ParseTenths(Strip(cell.s))

\* Lines 439-451.
ParsedBloodPressure(cell) ==
    LET nonEmpty(x) == x # ""
        parts == SelectSeq(SplitOn(PyStr(cell), "[^0-9]", ""), nonEmpty)
    IN  IF Len(parts) >= 2
        THEN <<V(DigitsToNat(parts[1])), V(DigitsToNat(parts[2]))>>
        ELSE <<NULL, NULL>>

\* row[db_columns[c]], and `db_columns[c] is not None and pd.notna(...)`.
CellAt(cols, row, c) == row[cols[c]]

Has(cols, row, c) == cols[c] # 0 /\ NotNa(CellAt(cols, row, c))

\* Line 373.
ImportedPatientId(text, suffix, stamp) ==
    IF text # "" THEN text ELSE generate_patient_id(stamp, suffix)

\* Lines 419-424: visit_reason_category is preferred, visit_reason the fallback.
ImportedVisitReason(cols, row) ==
    IF Has(cols, row, "visit_reason_category")
    THEN V(PyStr(CellAt(cols, row, "visit_reason_category")))
    ELSE IF Has(cols, row, "visit_reason")
    THEN V(PyStr(CellAt(cols, row, "visit_reason")))
    ELSE NULL

\* int(row[db_columns[c]]) under try/except: None when it raises.
IntOrNone(cols, row, c) ==
    IF Has(cols, row, c) /\ IntParses(CellAt(cols, row, c))
    THEN V(ParsedInt(CellAt(cols, row, c))) ELSE NULL

\* An importer that reads the heart rate from the heart_rate column alone.
ImportedHeartRateNoPulse(cols, row) == IntOrNone(cols, row, "heart_rate")

\* Lines 427-438: heart_rate is preferred, pulse the fallback.
ImportedHeartRate(cols, row) ==
    IF IsNull(IntOrNone(cols, row, "heart_rate"))
    THEN IntOrNone(cols, row, "pulse")
    ELSE IntOrNone(cols, row, "heart_rate")

\* Lines 439-451.
ImportedBloodPressure(cols, row) ==
    IF Has(cols, row, "blood_pressure")
    THEN ParsedBloodPressure(CellAt(cols, row, "blood_pressure"))
    ELSE <<NULL, NULL>>

\* str(x) if the column is mapped and the cell is not blank, else None.
StrOrNone(cols, row, c) ==
    IF Has(cols, row, c) THEN V(PyStr(CellAt(cols, row, c))) ELSE NULL

\* Lines 455-465: the values bound to INSERT OR REPLACE.
BoundValues(cols, row, suffix, stamp, bp) ==
    [patient_id |-> V(ImportedPatientId(
                        IF cols["patient_id"] = 0 THEN ""
                        ELSE Strip(PyStr(CellAt(cols, row, "patient_id"))), suffix, stamp)),
     full_name |-> V(Strip(PyStr(CellAt(cols, row, "full_name")))),
     grade_level |-> StrOrNone(cols, row, "grade_level"),
     date_of_visit |-> V(ParsedDate(CellAt(cols, row, "date_of_visit"))),
     time_of_visit |-> V(ParsedTime(CellAt(cols, row, "time_of_visit"))),
     nurse_name |-> V(Strip(PyStr(CellAt(cols, row, "nurse_name")))),
     visit_reason_category |-> ImportedVisitReason(cols, row),
     visit_details |-> StrOrNone(cols, row, "visit_details"),
     temperature |-> IF Has(cols, row, "temperature")
                     THEN V(ParsedFloat(CellAt(cols, row, "temperature"))) ELSE NULL,
     heart_rate |-> ImportedHeartRate(cols, row),
     blood_pressure_systolic |-> bp[1],
     blood_pressure_diastolic |-> bp[2],
     created_at |-> V(stamp)]

\* Lines 370-469 for one row: "skip" (invalid date), "raise" (the outer except),
\* or the values bound to INSERT OR REPLACE.
ReconcileRow(cols, row, suffix, stamp) ==
    IF ~DateParses(CellAt(cols, row, "date_of_visit")) THEN [res |-> "skip"]
    ELSE IF Has(cols, row, "temperature") /\ ~FloatParses(CellAt(cols, row, "temperature"))
    THEN [res |-> "raise"]
    ELSE [res |-> "insert",
          vals |-> BoundValues(cols, row, suffix, stamp, ImportedBloodPressure(cols, row))]

\* INSERT OR REPLACE: a row holding the same patient_id is deleted first.
InsertOrReplace(t, vals) ==
    InsertRow(IF IsNull(vals["patient_id"]) THEN t
              ELSE DeleteWhere(t, "patient_id", vals["patient_id"]), vals)

\* The statement for a reconciled row; a skipped or raising row writes nothing.
TryInsert(t, rec) ==
    IF rec.res = "insert" THEN InsertOrReplace(t, rec.vals) ELSE [ok |-> FALSE, t |-> t]

\* A loop that numbers a message by the count of errors alone.
CountedByErrors(acc, ins) ==
    IF ins.ok
    THEN [acc EXCEPT !.t = ins.t, !.success_count = @ + 1]
    ELSE [acc EXCEPT !.error_count = @ + 1,
                     !.errors = Append(@, acc.error_count + 1)]

\* Lines 466-469: acc = [t, success_count, error_count, errors], errors holding
\* the row number each message carries.
Counted(acc, ins) ==
    IF ins.ok
    THEN [acc EXCEPT !.t = ins.t, !.success_count = @ + 1]
    ELSE [acc EXCEPT !.error_count = @ + 1,
                     !.errors = Append(@, acc.success_count + acc.error_count + 1)]

\* Lines 365-469: the rows in order.
RECURSIVE ImportRows(_, _, _, _, _)
ImportRows(acc, cols, rows, suffixes, stamp) ==
    IF rows = <<>> THEN acc
    ELSE ImportRows(Counted(acc, TryInsert(acc.t, ReconcileRow(cols, Head(rows),
                                                               Head(suffixes), stamp))),
                    cols, Tail(rows), Tail(suffixes), stamp)

(***************************************************************************)
(* Spreadsheet export (app/utils/excel_utils.py)                           *)
(***************************************************************************)
\* get_excel_headers(), lines 9-51.
ExcelHeaders ==
    <<"Patient ID",
      "Full Name", "Date of Birth", "Age", "Gender", "Grade/Year Level",
      "Parent/Guardian Name", "Parent/Guardian Phone",
      "Emergency Contact Name", "Emergency Contact Phone",
      "Academic Year", "Academic Term", "Date of Visit", "Time of Visit",
      "Brought In By", "Nurse Name", "Visit Reason Category", "Severity Level",
      "Visit Details",
      "Temperature (°C)", "Pulse (bpm)", "Respiratory Rate (cpm)",
      "Oxygen Saturation (%)", "Blood Pressure (mmHg)",
      "Presenting Complaint(s)", "Other Complaint Details", "Complaint Background",
      "Past Medical History", "Known Allergies", "Current Medications",
      "Special Medical Needs", "Chronic Conditions",
      "Nurse Observations", "Interventions Provided", "Medications Administered",
      "Next Step(s)", "Other Next Step Details", "Referral Type", "Follow-up Date",
      "Admission Date", "Admission Time", "Condition on Admission", "Plan of Care",
      "Discharge Time", "Condition at Discharge", "Discharge Instructions",
      "Return to Class Time", "Parent Notified", "Parent Notification Time",
      "Incident Report Required",
      "Notes", "Created At", "Updated At">>

\* Lines 153-203: the record key a header reads.
HeaderField(header) ==
    CASE header = "Parent/Guardian Name" -> "parent_primary_name"
      [] header = "Parent/Guardian Phone" -> "parent_primary_phone"
      [] header = "Grade/Year Level" -> "grade_level"
      [] header = "Temperature (°C)" -> "temperature"
      [] header = "Pulse (bpm)" -> "heart_rate"
      [] header = "Respiratory Rate (cpm)" -> "respiratory_rate"
      [] header = "Oxygen Saturation (%)" -> "oxygen_saturation"
      [] header = "Next Step(s)" -> "next_steps"
      [] OTHER -> Underscored(Strip(Lower(header)))

\* format_value_for_excel, lines 99-109, on a column value: None is '', the
\* rest str(value).
format_value_for_excel(field, v) ==
    IF IsNull(v) THEN ""
    ELSE IF field = "temperature" THEN FmtTenths(Val(v))
    ELSE IF field \in {"id", "heart_rate", "created_at", "updated_at"} THEN NatToStr(Val(v))
    ELSE Val(v)

\* record.get(key): None for a key the record lacks.
Get(record, key) == IF key \in DOMAIN record THEN record[key] ELSE NULL

\* Lines 151-207: the cell of one header.
ExportCell(record, header) ==
    IF header = "Visit Reason Category"
    THEN LET a == Get(record, "visit_reason_category")
         IN  format_value_for_excel("visit_reason_category",
                                    IF IsNull(a) \/ a = V("") THEN Get(record, "visit_reason")
                                    ELSE a)
    ELSE IF header = "Blood Pressure (mmHg)"
    THEN LET sys_v == Get(record, "blood_pressure_systolic")
             dia_v == Get(record, "blood_pressure_diastolic")
         IN  IF ~IsNull(sys_v) /\ ~IsNull(dia_v)
             THEN NatToStr(Val(sys_v)) \o "/" \o NatToStr(Val(dia_v))
             ELSE format_value_for_excel("blood_pressure", Get(record, "blood_pressure"))
    ELSE format_value_for_excel(HeaderField(header), Get(record, HeaderField(header)))

\* Lines 143-209: the header row and one row of text cells per record.
export_records_to_excel(records) ==
    [headers |-> ExcelHeaders,
     cells |-> [i \in 1..Len(records) |->
                 [h \in 1..Len(ExcelHeaders) |-> ExportCell(records[i], ExcelHeaders[h])]]]

\* pd.read_excel of a written file: an empty cell is NaN, the rest text.
ReadCell(text) == IF text = "" THEN NaN ELSE Str(text)

read_excel(file) ==
    [headers |-> file.headers,
     rows |-> [i \in 1..Len(file.cells) |->
                [h \in 1..Len(file.headers) |-> ReadCell(file.cells[i][h])]]]

(***************************************************************************)
(* The import and export requests                                          *)
(***************************************************************************)
\* The sheets uploaded while the store is in service.
SheetHeaders == <<"Patient ID", "Full Name", "Date of Visit", "Time of Visit",
                  "Nurse Name", "Visit Reason", "Pulse", "Blood Pressure">>

GoodRow == <<Str("P1"), Str("Cy"), Str(FmtDate(1)), Str("8:05"), Str("Joy"),
             Str("Injury"), Num(88), Str("110/70")>>

BlankRow == <<NaN, NaN, Str(FmtDate(1)), NaN, Str("Joy"), NaN, Str("fast"), Str("abc")>>

BadDateRow == <<Str("P9"), Str("Di"), Str("soon"), Str("8:05"), Str("Joy"),
                Str("Injury"), NaN, NaN>>

ImportSheets ==
    { [headers |-> SheetHeaders, rows |-> <<GoodRow>>],
      [headers |-> SheetHeaders, rows |-> <<BadDateRow, BlankRow>>],
      [headers |-> SubSeq(SheetHeaders, 2, 5), rows |-> <<SubSeq(GoodRow, 2, 5)>>],
      [headers |-> <<"Name", "Pulse">>, rows |-> <<<<Str("Cy"), Num(88)>>>>] }

\* The uploads that differ only in the name of a column that has an alias: one
\* data row under lower-case headers.
HeartRateNames == {"pulse", "heart_rate"}

VisitReasonNames == {"visit_reason", "visit_reason_category"}

AliasHeaders(hr, reason) ==
    <<"patient_id", "full_name", "date_of_visit", "time_of_visit", "nurse_name",
      hr, reason, "blood_pressure", "temperature">>

UploadRows ==
    { <<Str("P1"), name, day, time, nurse, hr, reason, bp, temp>> :
        name \in {Str("Cy"), Str("  "), NaN},
        day \in {Str(FmtDate(1)), Str("soon"), NaN},
        time \in {Str("8:05"), Str("noon"), NaN},
        nurse \in {Str("Joy"), NaN},
        hr \in {Num(88), Str("72"), Str("fast"), NaN},
        reason \in {Str("Injury"), NaN},
        bp \in {Str("110/70"), Num(110), NaN},
        temp \in {Str("37.5"), Str("hot"), NaN} }

Uploads ==
    { [headers |-> AliasHeaders(hr, reason), rows |-> <<row>>] :
        hr \in HeartRateNames, reason \in VisitReasonNames, row \in UploadRows }

\* Batches of up to MaxRows data rows: rows that import, a row whose date is no
\* date (skipped at line 389), a row whose temperature is no number (float()
\* raises into the handler at line 467) and a row without a patient id.
BatchHeaders == SheetHeaders \o <<"Temperature">>

BatchRows ==
    { GoodRow \o <<Str("37.5")>>,
      <<Str("P2"), Str("Di"), Str(FmtDate(2)), Str("14:00"), Str("Al"),
        Str("Illness"), NaN, NaN, NaN>>,
      BadDateRow \o <<NaN>>,
      <<Str("P3"), Str("Ed"), Str(FmtDate(1)), Str("9:15"), Str("Joy"),
        Str("Other"), NaN, NaN, Str("hot")>>,
      <<NaN, Str("Flo"), Str(FmtDate(1)), Str("11:00"), Str("Joy"),
        NaN, NaN, NaN, NaN>> }

BatchUploads ==
    { [headers |-> BatchHeaders, rows |-> rows] :
        rows \in UNION {[1..n -> BatchRows] : n \in 0..MaxRows} }

\* Sources that supply both names of each alias pair, with different values:
\* visit_reason 'Injury' and visit_reason_category 'Illness', pulse 72 and
\* heart_rate 88. The sheets carry the alias columns in either order.
BothHeaders ==
    { <<"patient_id", "full_name", "date_of_visit", "time_of_visit", "nurse_name">>
          \o aliases :
        aliases \in { <<"visit_reason", "visit_reason_category", "pulse", "heart_rate">>,
                      <<"visit_reason_category", "visit_reason", "heart_rate", "pulse">>,
                      <<"reason", "category", "pulse", "heart_rate">> } }

BothCell(header, patient_id, full_name) ==
    CASE header = "patient_id" -> Str(patient_id)
      [] header = "full_name" -> Str(full_name)
      [] header = "date_of_visit" -> Str(FmtDate(1))
      [] header = "time_of_visit" -> Str("8:05")
      [] header = "nurse_name" -> Str("Joy")
      [] header \in {"visit_reason", "reason"} -> Str("Injury")
      [] header \in {"visit_reason_category", "category"} -> Str("Illness")
      [] header = "pulse" -> Num(72)
      [] header = "heart_rate" -> Num(88)

BothUploads ==
    { [headers |-> hs,
       rows |-> << [h \in 1..Len(hs) |-> BothCell(hs[h], patient_id, full_name)] >>] :
        hs \in BothHeaders, patient_id \in {"P1", "P2", ""}, full_name \in {"Cy", "Di"} }

BothForms ==
    { [BaseForm EXCEPT !.full_name = full_name, !.visit_reason = "Injury",
                       !.visit_reason_category = "Illness", !.heart_rate = V(88)] :
        full_name \in {"Ann", "Bob"} }

\* MapColumns of every header row the model uploads, computed once.
KnownHeaders ==
    {sh.headers : sh \in ImportSheets}
      \cup {AliasHeaders(hr, reason) : hr \in HeartRateNames, reason \in VisitReasonNames}
      \cup {ExcelHeaders}
      \cup {BatchHeaders}
      \cup BothHeaders

ColumnMap == [hs \in KnownHeaders |-> MapColumns(hs)]

\* What the request returns: the table, the counts and the messages.
ImportResult(res, acc) ==
    [res |-> res, t |-> acc.t, success_count |-> acc.success_count,
     error_count |-> acc.error_count, errors |-> acc.errors]

NothingImported(t) == [t |-> t, success_count |-> 0, error_count |-> 0, errors |-> <<>>]

\* Lines 293-489 on a sheet with a header row.
ImportFromExcel(t, sh, suffixes, stamp) ==
    IF \E c \in required_cols : ColumnMap[sh.headers][c] = 0
    THEN ImportResult("missing", NothingImported(t))
    ELSE ImportResult("ok", ImportRows(NothingImported(t), ColumnMap[sh.headers],
                                       sh.rows, suffixes, stamp))

\* Line 471: the commit, and the counts flashed to the user.
Committed(res) ==
    /\ db' = [db EXCEPT !.records = res.t]
    /\ report' = [res |-> res.res, success_count |-> res.success_count,
                  error_count |-> res.error_count, errors |-> res.errors]
    /\ last' = Outcome("import_from_excel", res.res, NULL)

\* POST /import of the uploaded sheet sh: one transaction, committed at the end.
Upload(sh) ==
    /\ Serving
    /\ \E suffixes \in [1..Len(sh.rows) -> Suffixes] :
         Committed(ImportFromExcel(db.records, sh, suffixes, now))
    /\ sheet' = sh
    /\ UNCHANGED <<now, proc>>

Import(sh) == Upload(sh) /\ NoMigration

ImportSheet ==
    \E sh \in ImportSheets : Import(sh)

(***************************************************************************)
(* The stores the program starts from                                      *)
(***************************************************************************)
EmptyDb == NoSnap

\* The store init_db leaves on a new database file.
FreshDb == [EmptyDb EXCEPT !.records = NewTable(CanonCols, CanonNotNull, CanonUnique)]

LegacyCols == {LegacyBaseCols, LegacyBaseCols \cup {"updated_at"}}

LegacyRow1 == [id |-> V(1), patient_id |-> V("P1"), full_name |-> V("Ann"),
               grade_level |-> V("5"), date_of_visit |-> V(FmtDate(1)),
               time_of_visit |-> V("09:30"), nurse_name |-> V("Joy"),
               visit_reason |-> V("Illness"), visit_details |-> V("fever"),
               temperature |-> V(986), pulse |-> V(72),
               blood_pressure |-> V("120/80"), created_at |-> V(0),
               updated_at |-> V(0)]

LegacyRow3 == [id |-> V(3), patient_id |-> V("P3"), full_name |-> V("Bob"),
               grade_level |-> NULL, date_of_visit |-> V(FmtDate(1)),
               time_of_visit |-> V("10:15"), nurse_name |-> V("Joy"),
               visit_reason |-> V("Injury"), visit_details |-> NULL,
               temperature |-> NULL, pulse |-> NULL,
               blood_pressure |-> NULL, created_at |-> V(0),
               updated_at |-> V(0)]

\* A store written by the superseded version: its second record was deleted.
LegacyDb(cols) ==
    LET cut(r) == [c \in cols |-> r[c]]
    IN  [EmptyDb EXCEPT !.records =
            [exists |-> TRUE, cols |-> cols, notnull |-> CanonNotNull,
             unique |-> CanonUnique, rows |-> <<cut(LegacyRow1), cut(LegacyRow3)>>,
             seq |-> 3]]

InitStores == {EmptyDb} \cup {LegacyDb(cols) : cols \in LegacyCols}

Quiet ==
    /\ now = 1
    /\ proc = Idle
    /\ snap = NoSnap
    /\ last = Outcome("none", "ok", NULL)
    /\ sheet = NoSheet
    /\ report = NoReport
    /\ served = 0
    /\ result = NoResult
    /\ book = NoBook

Init ==
    /\ db \in InitStores
    /\ Quiet

Next ==
    \/ Tick
    \/ InitDb
    \/ InitDbCreate
    \/ InitDbCopy
    \/ InitDbFail
    \/ RunMigration
    \/ MigCreate
    \/ MigRebuild
    \/ MigFail
    \/ CreateRecord
    \/ UpdateRecord
    \/ DeleteRecord
    \/ AddRecord
    \/ EditRecord
    \/ WebDelete
    \/ ImportSheet

Spec == Init /\ [][Next]_vars

(***************************************************************************)
(* One upload into a newly initialised store                               *)
(***************************************************************************)
InitImport ==
    /\ db = FreshDb
    /\ Quiet

ImportUpload ==
    /\ sheet = NoSheet
    /\ \E sh \in Uploads : Import(sh)

NextImport == ImportUpload

SpecImport == InitImport /\ [][NextImport]_vars

(***************************************************************************)
(* One batch of rows uploaded into a newly initialised store               *)
(***************************************************************************)
InitBatch ==
    /\ db = FreshDb
    /\ Quiet

ImportBatch ==
    /\ sheet = NoSheet
    /\ \E sh \in BatchUploads : Import(sh)

NextBatch == ImportBatch

SpecBatch == InitBatch /\ [][NextBatch]_vars

(***************************************************************************)
(* One row with a blood-pressure cell uploaded into a newly initialised    *)
(* store                                                                   *)
(***************************************************************************)
\* What the blood_pressure column of an uploaded row can hold.
PressureCells ==
    { Str("120/80"), Str("110-70"), Str("abc"), Str("120"), Str("120/"), Str("/80"),
      Str("120/80/90"), Str("120 / 80"), Str("BP 120 over 80"), Str("2024-01-05"),
      Num(110), NaN }

PressureUploads ==
    { [headers |-> AliasHeaders("heart_rate", "visit_reason_category"),
       rows |-> << <<Str("P1"), Str("Cy"), Str(FmtDate(day)), time, Str("Joy"), hr,
                     Str("Injury"), bp, temp>> >>] :
        day \in 1..2, time \in {Str("8:05"), Str("14:00")}, hr \in {Num(88), NaN},
        bp \in PressureCells, temp \in {Str("37.5"), NaN} }

InitPressure ==
    /\ db = FreshDb
    /\ Quiet

ImportPressure ==
    /\ sheet = NoSheet
    /\ \E sh \in PressureUploads : Import(sh)

NextPressure == ImportPressure

SpecPressure == InitPressure /\ [][NextPressure]_vars

(***************************************************************************)
(* Export of the store, and the import of the exported file into a newly   *)
(* initialised store                                                       *)
(***************************************************************************)
\* The characters of stored dates and times, in byte order.
Alphabet == " -./0123456789:ABCDEFGHIJKLMNOPQRSTUVWXYZ_abcdefghijklmnopqrstuvwxyz"

CharRank(c) ==
    IF \E i \in 1..Len(Alphabet) : SubSeq(Alphabet, i, i) = c
    THEN CHOOSE i \in 1..Len(Alphabet) : SubSeq(Alphabet, i, i) = c
    ELSE 0

\* a < b under SQLite's BINARY collation.
RECURSIVE StrLess(_, _)
StrLess(a, b) ==
    IF b = "" THEN FALSE
    ELSE IF a = "" THEN TRUE
    ELSE IF Head(a) = Head(b) THEN StrLess(Tail(a), Tail(b))
    ELSE CharRank(Head(a)) < CharRank(Head(b))

\* An ordering that puts a row before the rows it ties with.
VisitBeforeOrTied(r, q) ==
    LET rd == Val(r["date_of_visit"])
        qd == Val(q["date_of_visit"])
    IN  \/ StrLess(qd, rd)
        \/ rd = qd /\ ~StrLess(Val(r["time_of_visit"]), Val(q["time_of_visit"]))

\* Does row r come before row q under ORDER BY date_of_visit DESC, time_of_visit DESC?
VisitBefore(r, q) ==
    LET rd == Val(r["date_of_visit"])
        qd == Val(q["date_of_visit"])
    IN  \/ StrLess(qd, rd)
        \/ rd = qd /\ StrLess(Val(q["time_of_visit"]), Val(r["time_of_visit"]))

RECURSIVE InsertByVisit(_, _)
InsertByVisit(rows, r) ==
    IF rows = <<>> THEN <<r>>
    ELSE IF VisitBefore(r, Head(rows)) THEN <<r>> \o rows
    ELSE <<Head(rows)>> \o InsertByVisit(Tail(rows), r)

\* SELECT * FROM records ORDER BY date_of_visit DESC, time_of_visit DESC; rows
\* that tie come in rowid order.
RECURSIVE OrderByVisit(_)
OrderByVisit(rows) ==
    IF rows = <<>> THEN <<>>
    ELSE InsertByVisit(OrderByVisit(SubSeq(rows, 1, Len(rows) - 1)), rows[Len(rows)])

\* GET /export (main.py lines 259-291): an empty store exports nothing.
ExportToExcel ==
    /\ Serving
    /\ db.records.rows # <<>>
    /\ sheet' = read_excel(export_records_to_excel(OrderByVisit(db.records.rows)))
    /\ report' = NoReport
    /\ last' = Outcome("export_to_excel", "ok", NULL)
    /\ NoMigration
    /\ UNCHANGED <<db, now, proc>>

\* The exported file is kept, and a new installation starts on an empty
\* database file: snap holds the store the file was exported from.
FreshInstall ==
    /\ proc.pc = "idle"
    /\ last.op = "export_to_excel"
    /\ snap' = db
    /\ db' = FreshDb
    /\ last' = Outcome("fresh_install", "ok", NULL)
    /\ UNCHANGED <<now, proc, sheet, report, served, result, book>>

\* POST /import of the exported file on the new installation.
ImportExported ==
    /\ snap # NoSnap
    /\ report = NoReport
    /\ Upload(sheet)
    /\ UNCHANGED snap

InitRoundTrip ==
    /\ db = FreshDb
    /\ Quiet

NextRoundTrip ==
    \/ Tick
    \/ CreateRecord
    \/ AddRecord
    \/ ExportToExcel
    \/ FreshInstall
    \/ ImportExported

SpecRoundTrip == InitRoundTrip /\ [][NextRoundTrip]_vars

(***************************************************************************)
(* Export of a store whose records were entered on the web form with any   *)
(* part of the blood pressure filled in                                    *)
(***************************************************************************)
\* Both blood-pressure fields of RecordForm are Optional, each on its own.
PressureForms ==
    { [BaseForm EXCEPT !.full_name = name,
                       !.blood_pressure_systolic = sys_v,
                       !.blood_pressure_diastolic = dia_v] :
        name \in {"Ann", "Bob"}, sys_v \in {NULL, V(120)}, dia_v \in {NULL, V(80)} }

AddPressure == Add(PressureForms)

InitExport ==
    /\ db = FreshDb
    /\ Quiet

NextExport ==
    \/ Tick
    \/ AddPressure
    \/ ExportToExcel

SpecExport == InitExport /\ [][NextExport]_vars

(***************************************************************************)
(* Data entry from sources that supply both names of an alias pair         *)
(***************************************************************************)
AddBoth == Add(BothForms)

ImportBoth ==
    \E sh \in BothUploads : Import(sh)

InitAlias ==
    /\ db = FreshDb
    /\ Quiet

NextAlias ==
    \/ Tick
    \/ AddBoth
    \/ ImportBoth

SpecAlias == InitAlias /\ [][NextAlias]_vars

(***************************************************************************)
(* Queries: search_records and get_all_records (app/models/db.py) and the  *)
(* web search (app/controllers/main.py)                                    *)
(***************************************************************************)
\* text LIKE pat in SQLite: % matches any run of characters, _ any one
\* character, letters match without regard to case; there is no ESCAPE.
RECURSIVE Like(_, _)
Like(text, pat) ==
    IF pat = "" THEN text = ""
    ELSE IF Head(pat) = "%"
    THEN Like(text, Tail(pat)) \/ (text # "" /\ Like(Tail(text), pat))
    ELSE /\ text # ""
         /\ (Head(pat) = "_" \/ LowerChar(Head(text)) = LowerChar(Head(pat)))
         /\ Like(Tail(text), Tail(pat))

\* column LIKE ?: NULL LIKE ... is NULL, which selects nothing.
LikeValue(v, pat) == ~IsNull(v) /\ Like(Val(v), pat)

\* WHERE full_name LIKE ? OR patient_id LIKE ? OR nurse_name LIKE ?
SelectLike(rows, search_pattern) ==
    LET hit(r) == \/ LikeValue(r["full_name"], search_pattern)
                  \/ LikeValue(r["patient_id"], search_pattern)
                  \/ LikeValue(r["nurse_name"], search_pattern)
    IN  SelectSeq(rows, hit)

\* LIMIT per_page OFFSET offset (a negative offset counts as 0).
Limit(rows, per_page, offset) ==
    LET from == Max(offset, 0)
        upto == IF from + per_page < Len(rows) THEN from + per_page ELSE Len(rows)
    IN  SubSeq(rows, from + 1, upto)

\* Lines 318-324 and 347-353: the dictionary both functions return.
Paged(matching, page, per_page) ==
    [items |-> Limit(OrderByVisit(matching), per_page, (page - 1) * per_page),
     total |-> Len(matching),
     page |-> page,
     per_page |-> per_page,
     pages |-> (Len(matching) + per_page - 1) \div per_page]

\* A search that counts the full pages only.
search_recordsFullPages(t, search_term, page, per_page) ==
    [Paged(SelectLike(t.rows, "%" \o search_term \o "%"), page, per_page)
        EXCEPT !.pages = Len(SelectLike(t.rows, "%" \o search_term \o "%")) \div per_page]

\* Lines 287-324.
search_records(t, search_term, page, per_page) ==
    Paged(SelectLike(t.rows, "%" \o search_term \o "%"), page, per_page)

\* Lines 326-353.
get_all_records(t, page, per_page) == Paged(t.rows, page, per_page)

\* Line 65: a POST whose form validates (DataRequired on search_term), or a
\* request with a non-empty search_term argument.
IsSearch(method, search_term) ==
    IF method = "POST" THEN Strip(search_term) # "" ELSE search_term # ""

\* Lines 59-84: the records the search page shows.
SearchResult(t, method, search_term) ==
    IF IsSearch(method, search_term)
    THEN OrderByVisit(SelectLike(t.rows, "%" \o search_term \o "%"))
    ELSE <<>>

\* The terms searched for, the pages and the page sizes asked for.
SearchTerms == {"an", "P", "JOY", "_", ""}

Pages == 1..MaxPage

PerPages == 1..MaxPerPage

\* A read of the store in service: it changes nothing and ends no budget.
Reading ==
    /\ proc.pc = "idle" /\ db.records.exists /\ ~IsLegacy(db.records)
    /\ NoMigration /\ NoUpload
    /\ UNCHANGED <<db, now, proc, served, book>>

SearchRecords ==
    /\ Reading
    /\ \E search_term \in SearchTerms, page \in Pages, per_page \in PerPages :
         /\ result' = search_records(db.records, search_term, page, per_page)
         /\ last' = Outcome("search_records", "ok", V(search_term))

GetAllRecords ==
    /\ Reading
    /\ \E page \in Pages, per_page \in PerPages :
         /\ result' = get_all_records(db.records, page, per_page)
         /\ last' = Outcome("get_all_records", "ok", NULL)

Search ==
    /\ Reading
    /\ \E method \in {"GET", "POST"}, search_term \in SearchTerms :
         /\ result' = [NoResult EXCEPT !.items = SearchResult(db.records, method, search_term)]
         /\ last' = Outcome("search", "ok", V(search_term))

\* The visits entered through create_record before the store is queried.
VisitData(patient_id, full_name, nurse_name, day, time) ==
    [patient_id |-> V(patient_id), full_name |-> V(full_name),
     nurse_name |-> V(nurse_name), date_of_visit |-> V(FmtDate(day)),
     time_of_visit |-> V(time), visit_reason_category |-> V("Illness")]

VisitInputs ==
    { VisitData("P1", "Ann", "Joy", 1, "09:30"),
      VisitData("P2", "Bob", "Al", 2, "08:05"),
      VisitData("P3", "Cy", "Joy", 2, "10:15"),
      VisitData("p4", "Dan", "Al", 1, "09:30") }

CreateVisit == Create(VisitInputs)

InitQuery ==
    /\ db = FreshDb
    /\ Quiet

NextQuery ==
    \/ CreateVisit
    \/ SearchRecords
    \/ GetAllRecords
    \/ Search

SpecQuery == InitQuery /\ [][NextQuery]_vars

(***************************************************************************)
(* Data entry alone: create_record, the web add and edit forms and the     *)
(* import, on a newly initialised store                                    *)
(***************************************************************************)
InitEntry ==
    /\ db = FreshDb
    /\ Quiet

NextEntry ==
    \/ Tick
    \/ CreateRecord
    \/ AddRecord
    \/ EditRecord
    \/ ImportSheet

SpecEntry == InitEntry /\ [][NextEntry]_vars

(***************************************************************************)
(* The workbook of the command-line tool                                   *)
(* (excel_batch_operations_enhanced.py) and its search (nurse_cli.py)      *)
(***************************************************************************)
\* The columns of COLUMN_HEADERS that the model keeps.
COLUMN_HEADERS == {"Patient ID", "Full Name", "Date of Visit", "Time of Visit",
                   "Nurse Name/ID"}

REQUIRED_FIELDS == {"Full Name", "Date of Visit", "Time of Visit", "Nurse Name/ID"}

\* `field in record_data and record_data[field]` on a dictionary of texts.
Truthy(record_data, field) == field \in DOMAIN record_data /\ record_data[field] # ""

\* strptime(text, "%H:%M") succeeds (the inputs carry no AM/PM).
IsClock(text) ==
    LET parts == SplitOn(text, ":", "")
    IN  /\ Len(parts) = 2
        /\ \A i \in 1..2 : AllDigits(parts[i]) /\ Len(parts[i]) <= 2
        /\ DigitsToNat(parts[1]) <= 23 /\ DigitsToNat(parts[2]) <= 59

\* validate_record, lines 112-143: no error is found.
validate_record(record_data) ==
    /\ \A field \in REQUIRED_FIELDS : Truthy(record_data, field)
    /\ Truthy(record_data, "Date of Visit") => IsIsoDate(record_data["Date of Visit"])
    /\ Truthy(record_data, "Time of Visit") => IsClock(record_data["Time of Visit"])

\* generate_patient_id, lines 52-54: "SID" and the time of the call to the
\* millisecond; successive calls of the tool get different stamps.
excel_generate_patient_id(stamp) == "SID" \o NatToStr(stamp)

\* _convert_to_excel_value, lines 56-83: '' becomes an empty cell; a date or a
\* time is kept by the text it was given as.
convert_to_excel_value(value) == IF value = "" THEN NULL ELSE V(value)

\* initialize_excel_file, lines 85-110: afterwards the file and its header row exist.
initialize_excel_file(b) == [b EXCEPT !.exists = TRUE]

\* add_record, lines 145-173.
excel_add_record(b, record_data, stamp) ==
    IF ~validate_record(record_data) THEN [ok |-> FALSE, b |-> b, pid |-> NULL]
    ELSE LET pid == IF Truthy(record_data, "Patient ID") THEN record_data["Patient ID"]
                    ELSE excel_generate_patient_id(stamp)
             get(header) == IF header = "Patient ID" THEN pid
                            ELSE IF header \in DOMAIN record_data THEN record_data[header]
                            ELSE ""
             row_values == [header \in COLUMN_HEADERS |-> convert_to_excel_value(get(header))]
         IN  [ok |-> TRUE,
              b |-> [initialize_excel_file(b) EXCEPT !.rows = Append(b.rows, row_values)],
              pid |-> V(pid)]

\* str(cell.value): an empty cell reads as None.
PyStrOf(v) == IF IsNull(v) THEN "None" ELSE Val(v)

\* The data rows whose Patient ID cell reads as patient_id.
RowsOf(rows, patient_id) ==
    {i \in 1..Len(rows) : PyStrOf(rows[i]["Patient ID"]) = patient_id}

\* Lines 242-249: rows are scanned downwards and the first match is taken.
FirstRow(rows, patient_id) ==
    CHOOSE i \in RowsOf(rows, patient_id) : \A j \in RowsOf(rows, patient_id) : i <= j

\* Lines 276-280: rows are scanned upwards and the first match is taken.
LastRow(rows, patient_id) ==
    CHOOSE i \in RowsOf(rows, patient_id) : \A j \in RowsOf(rows, patient_id) : i >= j

\* update_record, lines 226-260.
excel_update_record(b, patient_id, updates) ==
    IF RowsOf(b.rows, patient_id) = {}
    THEN [found |-> FALSE, b |-> initialize_excel_file(b)]
    ELSE LET row_idx == FirstRow(b.rows, patient_id)
             old == b.rows[row_idx]
             new == [header \in COLUMN_HEADERS |->
                       IF header \in DOMAIN updates
                       THEN convert_to_excel_value(updates[header]) ELSE old[header]]
         IN  [found |-> TRUE, b |-> [b EXCEPT !.rows[row_idx] = new]]

\* delete_record, lines 262-291.
excel_delete_record(b, patient_id) ==
    IF RowsOf(b.rows, patient_id) = {}
    THEN [found |-> FALSE, b |-> initialize_excel_file(b)]
    ELSE LET row_idx == LastRow(b.rows, patient_id)
         IN  [found |-> TRUE,
              b |-> [b EXCEPT !.rows = SubSeq(b.rows, 1, row_idx - 1)
                                         \o SubSeq(b.rows, row_idx + 1, Len(b.rows))]]

\* find_records({key: value}), lines 197-224, without exact_match: the records
\* whose cell is filled and holds the value, whatever the case, in sheet order.
find_records(b, key, value) ==
    LET match(record) == /\ ~IsNull(record[key])
                         /\ Contains(Lower(Val(record[key])), Lower(value))
    IN  SelectSeq(b.rows, match)

\* Python `a or b` on two lists.
ListOr(a, b) == IF a # <<>> THEN a ELSE b

\* search_records of nurse_cli.py, lines 152-180, for a term that is not blank.
cli_search_records(b, search_term) ==
    ListOr(find_records(b, "Full Name", search_term),
           ListOr(find_records(b, "Patient ID", search_term),
                  find_records(b, "Nurse Name/ID", search_term)))

\* The dictionaries, Patient IDs and terms the tool is given.
BookRecord(patient_id, full_name, nurse_name) ==
    [header \in COLUMN_HEADERS |->
        CASE header = "Patient ID" -> patient_id
          [] header = "Full Name" -> full_name
          [] header = "Date of Visit" -> FmtDate(1)
          [] header = "Time of Visit" -> "09:30"
          [] header = "Nurse Name/ID" -> nurse_name]

BookInputs ==
    { BookRecord("P1", "Ann", "Joy"),
      BookRecord("P1", "Joy", "Al"),
      BookRecord("", "Bob", "Joy"),
      BookRecord("P2", "", "Joy"),
      Without(BookRecord("P2", "Cy", "Al"), {"Patient ID"}) }

BookUpdates ==
    { [header \in {"Full Name"} |-> "Eve"],
      [header \in {"Patient ID"} |-> "P1"],
      [header \in {"Patient ID"} |-> ""] }

BookIds == {"P1", "P2", "None", excel_generate_patient_id(0)}

CliTerms == {"joy", "P1", "a", "zz", " "}

\* One run of the tool.
Running ==
    /\ proc.pc = "idle"
    /\ served < MaxRequests
    /\ served' = served + 1
    /\ NoMigration /\ NoUpload
    /\ UNCHANGED <<db, now, proc>>

ExcelAdd ==
    /\ Running
    /\ \E record_data \in BookInputs :
         LET res == excel_add_record(book, record_data, served)
         IN  /\ book' = res.b
             /\ last' = Outcome("excel_add", IF res.ok THEN "ok" ELSE "invalid", res.pid)
    /\ result' = NoResult

ExcelUpdate ==
    /\ Running
    /\ \E patient_id \in BookIds, updates \in BookUpdates :
         LET res == excel_update_record(book, patient_id, updates)
         IN  /\ book' = res.b
             /\ last' = Outcome("excel_update", IF res.found THEN "ok" ELSE "not_found",
                                V(patient_id))
    /\ result' = NoResult

ExcelDelete ==
    /\ Running
    /\ \E patient_id \in BookIds :
         LET res == excel_delete_record(book, patient_id)
         IN  /\ book' = res.b
             /\ last' = Outcome("excel_delete", IF res.found THEN "ok" ELSE "not_found",
                                V(patient_id))
    /\ result' = NoResult

\* Option 3 of the menu; a blank term is refused (lines 158-161).
CliSearch ==
    /\ Running
    /\ \E term \in CliTerms :
         LET search_term == Strip(term)
         IN  /\ result' = IF search_term = "" THEN NoResult
                          ELSE [NoResult EXCEPT !.items = cli_search_records(book, search_term)]
             /\ last' = Outcome("cli_search", IF search_term = "" THEN "invalid" ELSE "ok",
                                V(search_term))
    /\ UNCHANGED book

InitBook ==
    /\ db = EmptyDb
    /\ Quiet

NextBook ==
    \/ ExcelAdd
    \/ ExcelUpdate
    \/ ExcelDelete
    \/ CliSearch

SpecBook == InitBook /\ [][NextBook]_vars

(***************************************************************************)
(* Properties                                                              *)
(***************************************************************************)
Migrators == {"init_db", "run_migration"}

\* A migrator run has ended, with result res.
MigrationEnded(res) == proc.pc = "idle" /\ last.op \in Migrators /\ last.res = res

Records == db.records.rows

Before == snap.records.rows

\* C1: no two records of the store carry the same patient_id (a record whose
\* patient_id is NULL carries none).
PatientIdUnique ==
    \A i, j \in 1..Len(Records) :
        (i # j /\ ~IsNull(Records[i]["patient_id"]))
            => Records[i]["patient_id"] # Records[j]["patient_id"]

\* C1 witness: two records are stored and a create_record naming the patient_id
\* of one of them has just been refused.
DuplicateRefused ==
    /\ Len(Records) >= 2
    /\ last.op = "create_record" /\ last.res = "error"
    /\ HasPatient(db.records, last.key)

\* C2: a create_record or web add whose patient_id, supplied or generated, is
\* already stored fails with an error and leaves the store exactly as it was.
CreateExistingFails ==
    [][(/\ served' = served + 1
        /\ proc' = proc
        /\ last'.op \in {"create_record", "add_record"}
        /\ ~IsNull(last'.key)
        /\ HasPatient(db.records, last'.key))
       => (last'.res = "error" /\ db' = db)]_vars

\* C2 witness: a create_record whose generated patient_id was already stored
\* has just been refused.
GeneratedIdRefused ==
    /\ last.op = "create_record" /\ last.res = "error"
    /\ \E suffix \in Suffixes : last.key = V(generate_patient_id(now, suffix))
    /\ HasPatient(db.records, last.key)

\* C3: a migration run that fails leaves the store identical to the store
\* before the run started.
FailedMigrationRestoresStore ==
    MigrationEnded("error") => db = snap

\* C4: a migrator run on a store that already has the canonical shape changes
\* no record (temperature, visit_details, blood pressure and updated_at
\* included).
MigrationOfCanonicalStoreIsNoOp ==
    (MigrationEnded("ok") /\ snap.records.exists /\ snap.records.cols = CanonCols)
        => Records = Before

\* C5: migrating a legacy store keeps the number of records and each record's
\* surrogate id, patient_id and created_at, and sets every updated_at to the
\* timestamp of the migration.
MigrationKeepsIdentity ==
    (MigrationEnded("ok") /\ IsLegacy(snap.records))
        => /\ Len(Records) = Len(Before)
           /\ \A i \in 1..Len(Before) : \E j \in 1..Len(Records) :
                 /\ Records[j]["id"] = Before[i]["id"]
                 /\ Records[j]["patient_id"] = Before[i]["patient_id"]
                 /\ Records[j]["created_at"] = Before[i]["created_at"]
           /\ \E stamp \in 1..now : \A j \in 1..Len(Records) :
                 Records[j]["updated_at"] = V(stamp)

\* C6: migrating a legacy store carries pulse into heart_rate and visit_reason
\* into visit_reason_category, and drops no value a legacy record held.
MigrationCarriesLegacyValues ==
    (MigrationEnded("ok") /\ IsLegacy(snap.records))
        => \A i \in 1..Len(Before) : \E j \in 1..Len(Records) :
              /\ Records[j]["patient_id"] = Before[i]["patient_id"]
              /\ Records[j]["heart_rate"] = Before[i]["pulse"]
              /\ Records[j]["visit_reason_category"] = Before[i]["visit_reason"]
              /\ \A c \in {"full_name", "grade_level", "date_of_visit", "time_of_visit",
                           "nurse_name", "visit_details"} :
                    Records[j][c] = Before[i][c]
              /\ IsNull(Records[j]["temperature"]) = IsNull(Before[i]["temperature"])
              /\ IsNull(Records[j]["blood_pressure_systolic"])
                    = IsNull(Before[i]["blood_pressure"])
              /\ IsNull(Records[j]["blood_pressure_diastolic"])
                    = IsNull(Before[i]["blood_pressure"])

\* The sheet sh with a column renamed to its alias.
Alias(name) ==
    CASE name = "pulse" -> "heart_rate"
      [] name = "heart_rate" -> "pulse"
      [] name = "visit_reason" -> "visit_reason_category"
      [] name = "visit_reason_category" -> "visit_reason"

Renamed(sh, names) ==
    [sh EXCEPT !.headers = [h \in 1..Len(sh.headers) |->
                              IF sh.headers[h] \in names THEN Alias(sh.headers[h])
                              ELSE sh.headers[h]]]

\* The heart rate and visit reason each row of a table ends with.
Vitals(t) ==
    [i \in 1..Len(t.rows) |->
        <<t.rows[i]["heart_rate"], t.rows[i]["visit_reason_category"]>>]

\* C7: an upload that names the heart-rate column pulse and the same upload
\* naming it heart_rate store the same heart_rate, and likewise visit_reason
\* and visit_reason_category store the same visit reason.
AliasColumnsEquivalent ==
    (last.op = "import_from_excel")
        => \A names \in {HeartRateNames, VisitReasonNames,
                         HeartRateNames \cup VisitReasonNames} :
             \A suffixes \in [1..Len(sheet.rows) -> Suffixes] :
                 Vitals(ImportFromExcel(FreshDb.records, Renamed(sheet, names),
                                        suffixes, now).t)
                     = Vitals(db.records)

\* C7 witness: a row uploaded under the headers pulse and visit_reason is stored
\* with its heart rate and its visit reason.
LegacyNamesImported ==
    /\ last.op = "import_from_excel"
    /\ sheet.headers = AliasHeaders("pulse", "visit_reason")
    /\ report.success_count = 1
    /\ Vitals(db.records) = << <<V(88), V("Injury")>> >>

\* The columns a round trip is to bring back: the required ones, and the
\* optional ones where the original holds a value.
RoundTripCols == {"patient_id", "full_name", "grade_level", "date_of_visit",
                  "time_of_visit", "nurse_name", "visit_reason_category",
                  "visit_details", "temperature", "heart_rate",
                  "blood_pressure_systolic", "blood_pressure_diastolic"}

NumberCols == {"temperature", "heart_rate", "blood_pressure_systolic",
               "blood_pressure_diastolic"}

\* The column c of a record holds something: not NULL and, for text, not ''.
Populated(c, v) == ~IsNull(v) /\ (c \in NumberCols \/ v # V(""))

\* C8: exporting the store and importing the file into an empty store yields
\* records equal to the originals in every required field and every populated
\* optional field (stated for originals whose required fields are filled in).
RoundTripPreservesRecords ==
    (/\ last.op = "import_from_excel" /\ snap # NoSnap
     /\ \A i \in 1..Len(Before) :
           \A c \in CanonNotNull \cup {"patient_id"} : Populated(c, Before[i][c]))
        => /\ Len(Records) = Len(Before)
           /\ \A i \in 1..Len(Before) : \E j \in 1..Len(Records) :
                 /\ Records[j]["patient_id"] = Before[i]["patient_id"]
                 /\ \A c \in RoundTripCols :
                       (c \in CanonNotNull \/ Populated(c, Before[i][c]))
                           => Records[j][c] = Before[i][c]

\* C9: after any sequence of create_record, web add, web edit and import,
\* every record has a non-empty full_name, date_of_visit, time_of_visit,
\* nurse_name and visit reason.
RequiredFieldsPresent ==
    \A i \in 1..Len(Records) :
        \A c \in CanonNotNull \cup {"visit_reason_category"} : Populated(c, Records[i][c])

\* A cell that is blank, or that does not parse as what its column holds.
TimeParses(cell) ==
    /\ cell.k = "str"
    /\ LET parts == SplitOn(Strip(cell.s), ":", "")
       IN  Len(parts) \in {2, 3} /\ \A p \in 1..Len(parts) : AllDigits(parts[p])

CellBad(c, cell) ==
    \/ ~NotNa(cell)
    \/ Strip(PyStr(cell)) = ""
    \/ c = "date_of_visit" /\ ~DateParses(cell)
    \/ c = "time_of_visit" /\ ~TimeParses(cell)

\* C10: an uploaded row whose full_name, date_of_visit, time_of_visit or
\* nurse_name cell is blank or unparsable is skipped and counted as an error.
BadRequiredCellSkipped ==
    (last.op = "import_from_excel" /\ report.res = "ok")
        => \A i \in 1..Len(sheet.rows) :
              (\E c \in required_cols :
                  CellBad(c, sheet.rows[i][ColumnMap[sheet.headers][c]]))
                  => i \in SeqToSet(report.errors)

\* Does the loop body fail on this row: the date of visit is no date, or the
\* temperature is no number?
RowFails(cols, row) ==
    \/ ~DateParses(CellAt(cols, row, "date_of_visit"))
    \/ Has(cols, row, "temperature") /\ ~FloatParses(CellAt(cols, row, "temperature"))

\* The patient id an uploaded row names.
RowPatientId(cols, row) == V(Strip(PyStr(CellAt(cols, row, "patient_id"))))

\* The position in the store of the record with this patient id, 0 if none.
PositionOf(t, pid) ==
    IF HasPatient(t, pid)
    THEN CHOOSE i \in 1..Len(t.rows) : t.rows[i]["patient_id"] = pid
    ELSE 0

\* C11: for an import of N data rows, success_count + error_count = N, the
\* messages carry the 1-based positions of exactly the failing rows, in order;
\* every row that did not fail is stored whatever failed before or after it
\* (unless a later row of the batch names the same patient id), and the rows
\* stored lie in the order of the sheet.
BatchImportCountsRows ==
    (last.op = "import_from_excel" /\ report.res = "ok")
        => LET cols == ColumnMap[sheet.headers]
               N == Len(sheet.rows)
               bad == {i \in 1..N : RowFails(cols, sheet.rows[i])}
               kept == {i \in (1..N) \ bad :
                          \A j \in (i + 1)..N :
                              j \in bad \/ RowPatientId(cols, sheet.rows[j])
                                              # RowPatientId(cols, sheet.rows[i])}
           IN  /\ report.success_count + report.error_count = N
               /\ report.error_count = Cardinality(bad)
               /\ Len(report.errors) = Cardinality(bad)
               /\ SeqToSet(report.errors) = bad
               /\ \A a, b \in 1..Len(report.errors) :
                      a < b => report.errors[a] < report.errors[b]
               /\ Len(Records) = Cardinality(kept)
               /\ \A i \in kept :
                      LET at == PositionOf(db.records, RowPatientId(cols, sheet.rows[i]))
                      IN  /\ at # 0
                          /\ Records[at]["full_name"]
                                = V(Strip(PyStr(CellAt(cols, sheet.rows[i], "full_name"))))
               /\ \A i, j \in kept :
                      i < j => PositionOf(db.records, RowPatientId(cols, sheet.rows[i]))
                                 < PositionOf(db.records, RowPatientId(cols, sheet.rows[j]))

\* C11 witness: a batch of three rows whose second row failed, with the first
\* and the third stored and the message naming row 2.
MiddleRowFailed ==
    /\ last.op = "import_from_excel" /\ Len(sheet.rows) = 3
    /\ report.success_count = 2 /\ report.error_count = 1
    /\ report.errors = <<2>>
    /\ Len(Records) = 2
    /\ Records[1]["patient_id"] = V("P1") /\ Records[2]["patient_id"] = V("P2")

\* C12: update_record with an id that is not in the store fails with an error,
\* whatever the update fields (none included), and changes no record.
UpdateAbsentFails ==
    [][(/\ last'.op = "update_record"
        /\ served' = served + 1
        /\ proc' = proc
        /\ IsNull(get_record_by_id(db.records, Val(last'.key))))
       => (last'.res = "error" /\ db' = db)]_vars

\* C13: a delete (delete_record by id, the web delete by patient_id) of a
\* record that is stored removes that record alone, leaves every other record
\* and the rest of the store as they were and reports success; a delete of a
\* record that is not stored changes nothing and reports not-found.
DeleteRemovesExactlyOne ==
    [][(/\ last'.op \in {"delete_record", "web_delete"}
        /\ served' = served + 1
        /\ proc' = proc)
       => LET c == IF last'.op = "delete_record" THEN "id" ELSE "patient_id"
              others(r) == r[c] # last'.key
              stored == \E i \in 1..Len(Records) : Records[i][c] = last'.key
          IN  IF stored
              THEN /\ last'.res = "ok"
                   /\ Len(db'.records.rows) = Len(Records) - 1
                   /\ db' = [db EXCEPT !.records.rows = SelectSeq(Records, others)]
              ELSE /\ last'.res = "not_found"
                   /\ db' = db]_vars

\* C13 witness: delete_record has just removed the first of two records and the
\* second is still stored.
DeletedOneOfTwo ==
    /\ last.op = "delete_record" /\ last.res = "ok" /\ last.key = V(1)
    /\ Len(Records) = 1
    /\ Records[1]["id"] = V(2)

\* The row `after` is the row `before` with the fields of `named` set and
\* updated_at refreshed to `stamp`, every other column as it was.
UpdatedAs(before, after, named, stamp) ==
    \A c \in DOMAIN before :
        after[c] = IF c = "updated_at" THEN V(stamp)
                   ELSE IF c \in DOMAIN named THEN named[c]
                   ELSE before[c]

\* C14: every successful update of a stored record, through update_record or
\* the web edit route, sets the record's updated_at to the time of the update,
\* changes exactly the fields the update names and leaves the record's other
\* fields and every other record unchanged.
UpdateRefreshesUpdatedAt ==
    [][(/\ last'.op \in {"update_record", "edit_record"}
        /\ last'.res = "ok"
        /\ served' = served + 1
        /\ proc' = proc)
       => LET c == IF last'.op = "update_record" THEN "id" ELSE "patient_id"
              named == IF last'.op = "update_record" THEN UpdateInputs
                       ELSE {FormValues(f) : f \in {g \in FormInputs : ValidForm(g, now)}}
          IN  /\ Len(db'.records.rows) = Len(Records)
              /\ \E u \in named :
                    \A i \in 1..Len(Records) :
                        IF Records[i][c] = last'.key
                        THEN UpdatedAs(Records[i], db'.records.rows[i], u, now)
                        ELSE db'.records.rows[i] = Records[i]]_vars

\* C15: across every step (create, update, web edit, import, migration), a
\* record that is stored before and after the step under the same patient_id
\* has an updated_at that did not decrease and did not revert to unset.
UpdatedAtNeverDecreases ==
    [][\A i \in 1..Len(Records) : \A j \in 1..Len(db'.records.rows) :
          (/\ ~IsNull(Records[i]["patient_id"])
           /\ db'.records.rows[j]["patient_id"] = Records[i]["patient_id"]
           /\ "updated_at" \in DOMAIN Records[i]
           /\ ~IsNull(Records[i]["updated_at"]))
             => /\ "updated_at" \in DOMAIN db'.records.rows[j]
                /\ ~IsNull(db'.records.rows[j]["updated_at"])
                /\ Val(db'.records.rows[j]["updated_at"]) >= Val(Records[i]["updated_at"])]_vars

\* C16: no update_record call, whatever its fields, and no web edit changes the
\* patient_id or the created_at of a stored record.
UpdateKeepsIdentity ==
    [][(/\ last'.op \in {"update_record", "edit_record"}
        /\ served' = served + 1
        /\ proc' = proc)
       => /\ Len(db'.records.rows) = Len(Records)
          /\ \A i \in 1..Len(Records) :
                /\ db'.records.rows[i]["id"] = Records[i]["id"]
                /\ db'.records.rows[i]["patient_id"] = Records[i]["patient_id"]
                /\ db'.records.rows[i]["created_at"] = Records[i]["created_at"]]_vars

\* The records holding `term` as a literal substring, letter case aside, in
\* full_name, patient_id or nurse_name.
HoldsTerm(r, term) ==
    \E c \in {"full_name", "patient_id", "nurse_name"} :
        ~IsNull(r[c]) /\ Contains(Lower(Val(r[c])), Lower(term))

LiteralMatches(rows, term) ==
    {rows[i] : i \in {j \in 1..Len(rows) : HoldsTerm(rows[j], term)}}

\* C17: for every search term, search_records and the web search return the
\* stored records that hold the term as a case-insensitive literal substring in
\* full_name, patient_id or nurse_name, and no others.
SearchFindsLiteralSubstring ==
    (last.op \in {"search_records", "search"})
        => LET literal == LiteralMatches(Records, Val(last.key))
           IN  /\ SeqToSet(result.items) \subseteq literal
               /\ last.op = "search" => SeqToSet(result.items) = literal
               /\ last.op = "search_records"
                     => /\ result.total = Cardinality(literal)
                        /\ (result.page = 1 /\ result.per_page >= result.total)
                              => SeqToSet(result.items) = literal

\* The day and the minute a stored visit names, as numbers.
DateNum(text) ==
    DigitsToNat(SubSeq(text, 1, 4)) * 10000
      + DigitsToNat(SubSeq(text, 6, 7)) * 100
      + DigitsToNat(SubSeq(text, 9, 10))

TimeNum(text) == DigitsToNat(SubSeq(text, 1, 2)) * 60 + DigitsToNat(SubSeq(text, 4, 5))

SameVisitTime(a, b) ==
    /\ DateNum(Val(a["date_of_visit"])) = DateNum(Val(b["date_of_visit"]))
    /\ TimeNum(Val(a["time_of_visit"])) = TimeNum(Val(b["time_of_visit"]))

MoreRecent(a, b) ==
    \/ DateNum(Val(a["date_of_visit"])) > DateNum(Val(b["date_of_visit"]))
    \/ /\ DateNum(Val(a["date_of_visit"])) = DateNum(Val(b["date_of_visit"]))
       /\ TimeNum(Val(a["time_of_visit"])) > TimeNum(Val(b["time_of_visit"]))

PageItems(p) ==
    IF last.op = "search_records"
    THEN search_records(db.records, Val(last.key), p, result.per_page).items
    ELSE get_all_records(db.records, p, result.per_page).items

\* Pages 1..p one after the other.
RECURSIVE PagesUpTo(_)
PagesUpTo(p) == IF p = 0 THEN <<>> ELSE PagesUpTo(p - 1) \o PageItems(p)

\* The records the query selects.
Selected ==
    IF last.op = "search_records"
    THEN SeqToSet(SelectLike(Records, "%" \o Val(last.key) \o "%"))
    ELSE SeqToSet(Records)

\* C19: search_records and get_all_records report total = the number of
\* records selected and pages = ceil(total / per_page); no page holds more than
\* per_page items, and pages 1..pages taken in order hold every selected record
\* exactly once.
PagesCoverSelection ==
    (last.op \in {"search_records", "get_all_records"})
        => /\ result.total = Cardinality(Selected)
           /\ result.pages * result.per_page >= result.total
           /\ result.pages * result.per_page < result.total + result.per_page
           /\ Len(result.items) <= result.per_page
           /\ \A p \in 1..result.pages :
                 Len(PageItems(p)) >= 1 /\ Len(PageItems(p)) <= result.per_page
           /\ Len(PagesUpTo(result.pages)) = result.total
           /\ SeqToSet(PagesUpTo(result.pages)) = Selected

\* C19 witness: page 2 of a search that selects three records, two to a page,
\* holds the one record left.
LastPageHoldsRest ==
    /\ last.op = "search_records"
    /\ result.total = 3 /\ result.per_page = 2 /\ result.pages = 2
    /\ result.page = 2 /\ Len(result.items) = 1

\* Is text of the form <digits><one non-digit character><digits>?
DigitsSepDigits(text) ==
    \E k \in 2..(Len(text) - 1) :
        /\ AllDigits(SubSeq(text, 1, k - 1))
        /\ ~IsDigit(SubSeq(text, k, k))
        /\ AllDigits(SubSeq(text, k + 1, Len(text)))

\* The numbers before and after the separator of such a text.
NumberBefore(text) ==
    LET k == CHOOSE j \in 2..(Len(text) - 1) : ~IsDigit(SubSeq(text, j, j))
    IN  DigitsToNat(SubSeq(text, 1, k - 1))

NumberAfter(text) ==
    LET k == CHOOSE j \in 2..(Len(text) - 1) : ~IsDigit(SubSeq(text, j, j))
    IN  DigitsToNat(SubSeq(text, k + 1, Len(text)))

\* C20: an uploaded row is stored whatever its blood-pressure cell holds; a
\* cell of the form <digits><one non-digit separator><digits> gives the two
\* numbers as systolic and diastolic, any other cell gives both NULL, and
\* never is exactly one of the two set.
BloodPressureSplit ==
    (last.op = "import_from_excel")
        => /\ report.success_count = 1 /\ report.error_count = 0
           /\ Len(Records) = 1
           /\ LET cell == CellAt(ColumnMap[sheet.headers], sheet.rows[1], "blood_pressure")
                  systolic == Records[1]["blood_pressure_systolic"]
                  diastolic == Records[1]["blood_pressure_diastolic"]
              IN  /\ IsNull(systolic) = IsNull(diastolic)
                  /\ IF cell.k = "str" /\ DigitsSepDigits(cell.s)
                     THEN /\ systolic = V(NumberBefore(cell.s))
                          /\ diastolic = V(NumberAfter(cell.s))
                     ELSE IsNull(systolic) /\ IsNull(diastolic)

\* The temperature a migrator run should leave for a record that held `before`
\* when the run started: converted once if the store was in the legacy shape,
\* untouched if it was canonical already.
CelsiusOf(before, legacy) ==
    IF IsNull(before) \/ ~legacy THEN before
    ELSE V(FahrenheitToCelsius(Val(before)))

\* C21: after a migrator run (init_db or run_migration, first or repeated) every
\* record's temperature is the Celsius value of what the store held before the
\* run: (F - 32) * 5/9 for a legacy store, the same value for a canonical one.
TemperatureConvertedOnce ==
    (MigrationEnded("ok") /\ snap.records.exists)
        => \A i \in 1..Len(Before) : \E j \in 1..Len(Records) :
              /\ Records[j]["patient_id"] = Before[i]["patient_id"]
              /\ Records[j]["temperature"]
                    = CelsiusOf(Before[i]["temperature"], IsLegacy(snap.records))

\* The validation ranges of the vital signs the model stores (RecordForm),
\* temperature in tenths of a degree.
VitalRange(c) ==
    CASE c = "temperature" -> [lo |-> 300, hi |-> 450]
      [] c = "heart_rate" -> [lo |-> 30, hi |-> 250]

\* C22: every non-null vital sign of every stored record lies inside its
\* validation range, whichever of create_record, the web forms and the import
\* wrote it.
VitalsInRange ==
    \A i \in 1..Len(Records) : \A c \in {"temperature", "heart_rate"} :
        InRange(Records[i][c], VitalRange(c).lo, VitalRange(c).hi)

\* C23: no stored record names a date_of_visit later than the day of its own
\* created_at.
VisitNotAfterCreation ==
    \A i \in 1..Len(Records) :
        (~IsNull(Records[i]["created_at"]) /\ ~IsNull(Records[i]["date_of_visit"]))
            => DateNum(Val(Records[i]["date_of_visit"]))
                  <= DateNum(FmtDate(Val(Records[i]["created_at"])))

\* A migrator run is under way, or has ended without success.
Unfinished == proc.pc # "idle" \/ MigrationEnded("error")

\* C24: while a migrator run that found records in the store has changed the
\* store and has not completed successfully, the table records_backup exists
\* and holds exactly the rows the store held when the run started.
BackupRetained ==
    (Unfinished /\ snap.records.exists /\ Before # <<>> /\ db # snap)
        => /\ db.records_backup.exists
           /\ db.records_backup.rows = Before

\* The column of the exported sheet that holds the blood pressure.
PressureColumn == CHOOSE h \in 1..Len(ExcelHeaders) : ExcelHeaders[h] = "Blood Pressure (mmHg)"

\* The text of a cell read back from the exported file ('' for an empty cell).
CellText(cell) == IF NotNa(cell) THEN cell.s ELSE ""

\* One exported blood-pressure cell against the record it was written from.
PressureShown(record, text) ==
    LET sys_v == record["blood_pressure_systolic"]
        dia_v == record["blood_pressure_diastolic"]
    IN  /\ text # "None"
        /\ (text = "") <=> (IsNull(sys_v) /\ IsNull(dia_v))
        /\ ~IsNull(sys_v) => Contains(text, NatToStr(Val(sys_v)))
        /\ ~IsNull(dia_v) => Contains(text, NatToStr(Val(dia_v)))
        /\ (~IsNull(sys_v) /\ ~IsNull(dia_v))
              => text = NatToStr(Val(sys_v)) \o "/" \o NatToStr(Val(dia_v))

\* C25: in every exported file, the blood-pressure cell of a record is empty only
\* when the record stores neither value, is never a null marker, and shows
\* every stored systolic and diastolic value ("<systolic>/<diastolic>").
ExportShowsBloodPressure ==
    last.op = "export_to_excel"
        => \A i \in 1..Len(Records) :
              PressureShown(OrderByVisit(Records)[i],
                            CellText(sheet.rows[i][PressureColumn]))

\* The rows of the workbook that a store search for `term` selects: those whose
\* Full Name, Patient ID or Nurse Name/ID holds the term, whatever the case.
BookMatches(term) ==
    {r \in SeqToSet(book.rows) :
        \E key \in {"Full Name", "Patient ID", "Nurse Name/ID"} :
            ~IsNull(r[key]) /\ Contains(Lower(Val(r[key])), Lower(term))}

\* C26: the command-line search returns exactly the rows whose Full Name,
\* Patient ID or Nurse Name/ID contains the term, case-insensitively.
CliSearchFindsAllFields ==
    (last.op = "cli_search" /\ last.res = "ok")
        => SeqToSet(result.items) = BookMatches(Val(last.key))

\* C30: no two data rows of the workbook carry the same Patient ID, so that the
\* row update_record takes for a Patient ID is the row delete_record takes.
WorkbookPatientIdUnique ==
    /\ \A i, j \in 1..Len(book.rows) :
          (i # j /\ ~IsNull(book.rows[i]["Patient ID"]))
              => book.rows[i]["Patient ID"] # book.rows[j]["Patient ID"]
    /\ \A patient_id \in BookIds :
          RowsOf(book.rows, patient_id) # {}
              => FirstRow(book.rows, patient_id) = LastRow(book.rows, patient_id)

\* C27: when every source supplies both names of each alias pair with the same
\* two values, every stored record holds the value of the same candidate: all
\* records agree on visit_reason_category and on heart_rate.
AliasWinnerFixed ==
    \A i, j \in 1..Len(Records) :
        /\ Records[i]["visit_reason_category"] = Records[j]["visit_reason_category"]
        /\ Records[i]["heart_rate"] = Records[j]["heart_rate"]

\* Every row of the sheet names its patient: no id is drawn at random.
NamesPatients(sh) ==
    /\ ColumnMap[sh.headers]["patient_id"] # 0
    /\ \A i \in 1..Len(sh.rows) : NotNa(CellAt(ColumnMap[sh.headers], sh.rows[i], "patient_id"))

\* C28: an import (here: of a sheet that names the patient of every row) keeps
\* every record the store held before it, unchanged, and the store grows by
\* exactly the number of rows it reports as imported.
ImportIsAdditive ==
    [][(served' = served + 1 /\ last'.op = "import_from_excel" /\ NamesPatients(sheet'))
          => /\ \A i \in 1..Len(db.records.rows) :
                   \E j \in 1..Len(db'.records.rows) :
                       db'.records.rows[j] = db.records.rows[i]
             /\ Len(db'.records.rows) = Len(db.records.rows) + report'.success_count]_vars

\* Legacy rows that exist in old_records only: renamed away by an init_db run
\* and not copied into records.
Stranded ==
    /\ db.old_records.exists
    /\ \E i \in 1..Len(db.old_records.rows) :
          ~HasPatient(db.records, db.old_records.rows[i]["patient_id"])

\* C29: an init_db run never ends successfully (the store taken as canonical,
\* the application started) while legacy rows remain only in old_records: a run
\* that follows a failed or interrupted migration migrates them.
LegacyRowsRecovered ==
    (proc.pc = "idle" /\ last.op = "init_db" /\ last.res = "ok") => ~Stranded

=============================================================================
